---------------------------- MODULE Spec2Model ----------------------------
(***************************************************************************)
(* Model of the e-mail deliverability engine of sheet-mail-scrubber, in   *)
(* its two variants: supabase/functions/verify-emails/index.ts, which     *)
(* probes the mail exchanger over SMTP, and src/unnamed/part_000, which   *)
(* scores the DNS findings.                                                *)
(*                                                                         *)
(* Three specifications share the variables below:                         *)
(*   SpecLimiter  DomainConcurrencyLimiter alone, under arbitrary          *)
(*                interleavings of acquire and release calls;              *)
(*   SpecProbe    one performSMTPCheck call, one action per await;         *)
(*   Spec         one batch of verifyEmail calls of the deployed variant:  *)
(*                index.ts with its limiter, or part_000.                  *)
(*                                                                         *)
(* Strings are sequences of one-character strings, so that split,          *)
(* toLowerCase, includes, parseInt, trim and the syntax regex are computed *)
(* as the JavaScript computes them.                                        *)
(***************************************************************************)
EXTENDS Integers, Sequences, FiniteSets, TLC

(***************************************************************************)
(* Program constants: SMTP_CONFIG, index.ts:34-41.                         *)
(***************************************************************************)
MAX_RETRIES == 1
MAX_WORKERS == 200
MAX_CONCURRENT_PER_DOMAIN == 5

(***************************************************************************)
(* Bounds of the model.                                                    *)
(***************************************************************************)
\* number of addresses in the batch handed to the serve handler
NumEmails == 2
\* in SpecWire: the last byte of the EHLO reply after which the model cuts it
MaxCut == 9
\* in SpecGate: the verifyEmail calls of one group that reach the limiter
GateSize == 7
\* in SpecLimiter: most in-flight acquisitions held for domains other than
\* the ones the model names
MaxOther == 200

(***************************************************************************)
(* JavaScript string primitives.                                           *)
(***************************************************************************)
LowerCaseLetters ==
    { "a", "b", "c", "d", "e", "f", "g", "h", "i", "j", "k", "l", "m",
      "n", "o", "p", "q", "r", "s", "t", "u", "v", "w", "x", "y", "z" }

UpperCaseLetters ==
    { "A", "B", "C", "D", "E", "F", "G", "H", "I", "J", "K", "L", "M",
      "N", "O", "P", "Q", "R", "S", "T", "U", "V", "W", "X", "Y", "Z" }

Digits ==
    { "0", "1", "2", "3", "4", "5", "6", "7", "8", "9" }

UpperCaseSeq ==
    <<"A", "B", "C", "D", "E", "F", "G", "H", "I", "J", "K", "L", "M">> \o
    <<"N", "O", "P", "Q", "R", "S", "T", "U", "V", "W", "X", "Y", "Z">>

LowerCaseSeq ==
    <<"a", "b", "c", "d", "e", "f", "g", "h", "i", "j", "k", "l", "m">> \o
    <<"n", "o", "p", "q", "r", "s", "t", "u", "v", "w", "x", "y", "z">>

DigitSeq == <<"0", "1", "2", "3", "4", "5", "6", "7", "8", "9">>

\* /\s/ as far as the model's strings go
WhiteSpace == { " ", "\t", "\r", "\n" }

\* NaN: an integer no parseInt of the model returns; every comparison goes
\* through the operators below, which are false on NaN as in JavaScript
NaN == -1000000

\* a === b on numbers
numEq(a, b) == a # NaN /\ b # NaN /\ a = b

\* a >= b on numbers
numGe(a, b) == a # NaN /\ b # NaN /\ a >= b

\* a < b on numbers
numLt(a, b) == a # NaN /\ b # NaN /\ a < b

\* String.prototype.toLowerCase, one character
lowerChar(c) ==
    IF c \in UpperCaseLetters
    THEN LowerCaseSeq[CHOOSE i \in 1..26 : UpperCaseSeq[i] = c]
    ELSE c

toLowerCase(s) == [i \in 1..Len(s) |-> lowerChar(s[i])]

\* String.prototype.includes
includes(s, p) ==
    \E i \in 0..(Len(s) - Len(p)) : SubSeq(s, i + 1, i + Len(p)) = p

\* String.prototype.startsWith
startsWith(s, p) ==
    Len(p) <= Len(s) /\ SubSeq(s, 1, Len(p)) = p

\* String.prototype.substring(0, n)
substring0(s, n) ==
    SubSeq(s, 1, IF n < Len(s) THEN n ELSE Len(s))

\* String.prototype.split with a one-character separator
RECURSIVE split(_, _)
split(s, sep) ==
    IF \A i \in 1..Len(s) : s[i] # sep
    THEN << s >>
    ELSE LET i == CHOOSE k \in 1..Len(s) :
                      s[k] = sep /\ \A j \in 1..(k - 1) : s[j] # sep
         IN  << SubSeq(s, 1, i - 1) >> \o split(SubSeq(s, i + 1, Len(s)), sep)

\* String.prototype.trim
RECURSIVE trimStart(_)
trimStart(s) ==
    IF s # << >> /\ s[1] \in WhiteSpace THEN trimStart(Tail(s)) ELSE s

RECURSIVE trimEnd(_)
trimEnd(s) ==
    IF s # << >> /\ s[Len(s)] \in WhiteSpace
    THEN trimEnd(SubSeq(s, 1, Len(s) - 1))
    ELSE s

trim(s) == trimEnd(trimStart(s))

digitValue(c) == (CHOOSE i \in 1..10 : DigitSeq[i] = c) - 1

\* the value of a string of decimal digits
RECURSIVE digitsValue(_)
digitsValue(ds) ==
    IF ds = << >> THEN 0
    ELSE 10 * digitsValue(SubSeq(ds, 1, Len(ds) - 1)) + digitValue(ds[Len(ds)])

\* the longest prefix of s made of decimal digits
RECURSIVE digitPrefix(_)
digitPrefix(s) ==
    IF s # << >> /\ s[1] \in Digits
    THEN << s[1] >> \o digitPrefix(Tail(s))
    ELSE << >>

\* parseInt(s): leading white space is skipped, one sign is accepted, the
\* longest run of digits is the value, and no digit at all is NaN
parseInt(s) ==
    LET t    == trimStart(s)
        neg  == t # << >> /\ t[1] = "-"
        body == IF t # << >> /\ t[1] \in { "-", "+" } THEN Tail(t) ELSE t
        ds   == digitPrefix(body)
    IN  IF ds = << >> THEN NaN
        ELSE IF neg THEN 0 - digitsValue(ds) ELSE digitsValue(ds)

(***************************************************************************)
(* Syntax and the static classifiers, index.ts:43-52 and 105-195.          *)
(***************************************************************************)
AlphaNumerics == LowerCaseLetters \cup UpperCaseLetters \cup Digits

\* the characters the regex allows in the local part besides letters and
\* digits; the backquote, which no TLA+ string can hold, is left out (no
\* address of the model contains one)
LocalPartSpecials ==
    { ".", "!", "#", "$", "%", "&", "'", "*", "+", "/", "=", "?", "^",
      "_", "{", "|", "}", "~", "-" }

\* isDomainLabel with the empty label accepted
isDomainLabelOrEmpty(l) ==
    \/ Len(l) = 0
    \/ /\ Len(l) <= 63
       /\ l[1] \in AlphaNumerics
       /\ l[Len(l)] \in AlphaNumerics
       /\ \A i \in 1..Len(l) : l[i] \in AlphaNumerics \cup { "-" }

\* [a-zA-Z0-9](?:[a-zA-Z0-9-]{0,61}[a-zA-Z0-9])?
isDomainLabel(l) ==
    /\ Len(l) >= 1
    /\ Len(l) <= 63
    /\ l[1] \in AlphaNumerics
    /\ l[Len(l)] \in AlphaNumerics
    /\ \A i \in 1..Len(l) : l[i] \in AlphaNumerics \cup { "-" }

\* emailRegex.test(email): a non-empty local part, one "@", then labels
\* separated by "."
validateEmailSyntax(email) ==
    \E at \in 2..Len(email) :
        /\ email[at] = "@"
        /\ \A i \in 1..(at - 1) : email[i] \in AlphaNumerics \cup LocalPartSpecials
        /\ LET labels == split(SubSeq(email, at + 1, Len(email)), ".")
           IN  \A k \in 1..Len(labels) : isDomainLabel(labels[k])

\* email.split('@')[1]
extractDomain(email) == split(email, "@")[2]

\* email.split('@')[0].toLowerCase()
localPartOf(email) == toLowerCase(split(email, "@")[1])

disposableDomains ==
    { <<"t", "e", "m", "p", "m", "a", "i", "l", ".", "c", "o", "m">>,
      <<"g", "u", "e", "r", "r", "i", "l", "l", "a", "m", "a", "i", "l", ".", "c", "o", "m">>,
      <<"1", "0", "m", "i", "n", "u", "t", "e", "m", "a", "i", "l", ".", "c", "o", "m">>,
      <<"t", "h", "r", "o", "w", "a", "w", "a", "y", ".", "e", "m", "a", "i", "l">>,
      <<"m", "a", "i", "l", "i", "n", "a", "t", "o", "r", ".", "c", "o", "m">>,
      <<"t", "e", "m", "p", "-", "m", "a", "i", "l", ".", "o", "r", "g">>,
      <<"g", "e", "t", "n", "a", "d", "a", ".", "c", "o", "m">>,
      <<"m", "a", "i", "l", "d", "r", "o", "p", ".", "c", "c">>,
      <<"s", "h", "a", "r", "k", "l", "a", "s", "e", "r", "s", ".", "c", "o", "m">>,
      <<"g", "u", "e", "r", "r", "i", "l", "l", "a", "m", "a", "i", "l", ".", "i", "n", "f", "o">>,
      <<"g", "r", "r", ".", "l", "a">>,
      <<"g", "u", "e", "r", "r", "i", "l", "l", "a", "m", "a", "i", "l", ".", "b", "i", "z">>,
      <<"s", "p", "a", "m", "4", ".", "m", "e">>,
      <<"y", "o", "p", "m", "a", "i", "l", ".", "c", "o", "m">>,
      <<"t", "r", "a", "s", "h", "m", "a", "i", "l", ".", "c", "o", "m">>,
      <<"m", "i", "n", "t", "e", "m", "a", "i", "l", ".", "c", "o", "m">> }

isDisposableEmail(domain) == toLowerCase(domain) \in disposableDomains

rolePrefixes ==
    { <<"a", "d", "m", "i", "n">>,
      <<"i", "n", "f", "o">>,
      <<"s", "u", "p", "p", "o", "r", "t">>,
      <<"s", "a", "l", "e", "s">>,
      <<"c", "o", "n", "t", "a", "c", "t">>,
      <<"h", "e", "l", "p">>,
      <<"w", "e", "b", "m", "a", "s", "t", "e", "r">>,
      <<"n", "o", "r", "e", "p", "l", "y">>,
      <<"n", "o", "-", "r", "e", "p", "l", "y">>,
      <<"p", "o", "s", "t", "m", "a", "s", "t", "e", "r">>,
      <<"h", "o", "s", "t", "m", "a", "s", "t", "e", "r">>,
      <<"s", "e", "r", "v", "i", "c", "e">>,
      <<"m", "a", "r", "k", "e", "t", "i", "n", "g">>,
      <<"b", "i", "l", "l", "i", "n", "g">>,
      <<"a", "b", "u", "s", "e">>,
      <<"s", "e", "c", "u", "r", "i", "t", "y">>,
      <<"p", "r", "i", "v", "a", "c", "y">>,
      <<"l", "e", "g", "a", "l">>,
      <<"t", "e", "a", "m">> }

isRoleBasedEmail(email) ==
    \E prefix \in rolePrefixes :
        \/ localPartOf(email) = prefix
        \/ startsWith(localPartOf(email), prefix \o << "." >>)

freeProviders ==
    { <<"g", "m", "a", "i", "l", ".", "c", "o", "m">>,
      <<"y", "a", "h", "o", "o", ".", "c", "o", "m">>,
      <<"h", "o", "t", "m", "a", "i", "l", ".", "c", "o", "m">>,
      <<"o", "u", "t", "l", "o", "o", "k", ".", "c", "o", "m">>,
      <<"a", "o", "l", ".", "c", "o", "m">>,
      <<"i", "c", "l", "o", "u", "d", ".", "c", "o", "m">>,
      <<"m", "a", "i", "l", ".", "c", "o", "m">>,
      <<"p", "r", "o", "t", "o", "n", "m", "a", "i", "l", ".", "c", "o", "m">>,
      <<"z", "o", "h", "o", ".", "c", "o", "m">>,
      <<"g", "m", "x", ".", "c", "o", "m">>,
      <<"y", "a", "n", "d", "e", "x", ".", "c", "o", "m">>,
      <<"l", "i", "v", "e", ".", "c", "o", "m">>,
      <<"m", "s", "n", ".", "c", "o", "m">>,
      <<"i", "n", "b", "o", "x", ".", "c", "o", "m">>,
      <<"f", "a", "s", "t", "m", "a", "i", "l", ".", "c", "o", "m">> }

isFreeProvider(domain) == toLowerCase(domain) \in freeProviders

spamTrapDomains ==
    { <<"s", "p", "a", "m", "t", "r", "a", "p", ".", "c", "o", "m">>,
      <<"h", "o", "n", "e", "y", "p", "o", "t", ".", "c", "o", "m">>,
      <<"b", "l", "a", "c", "k", "h", "o", "l", "e", ".", "c", "o", "m">>,
      <<"s", "i", "n", "k", ".", "c", "o", "m">>,
      <<"s", "p", "a", "m", "c", "o", "p", ".", "n", "e", "t">>,
      <<"d", "e", "a", "d", "l", "e", "t", "t", "e", "r", ".", "c", "o", "m">> }

spamTrapPatterns ==
    { <<"s", "p", "a", "m">>,
      <<"t", "r", "a", "p">>,
      <<"h", "o", "n", "e", "y", "p", "o", "t">>,
      <<"b", "l", "a", "c", "k", "h", "o", "l", "e">>,
      <<"s", "i", "n", "k">>,
      <<"a", "b", "u", "s", "e", "-">>,
      <<"s", "p", "a", "m", "t", "r", "a", "p">>,
      <<"d", "e", "a", "d", "l", "e", "t", "t", "e", "r">>,
      <<"d", "e", "v", "n", "u", "l", "l">> }

isSpamTrap(email) ==
    \/ toLowerCase(extractDomain(email)) \in spamTrapDomains
    \/ \E pattern \in spamTrapPatterns : includes(localPartOf(email), pattern)

abuseDomains ==
    { <<"c", "o", "m", "p", "l", "a", "i", "n", "b", "o", "t", ".", "c", "o", "m">>,
      <<"a", "b", "u", "s", "e", "m", "e", ".", "c", "o", "m">>,
      <<"s", "p", "a", "m", "r", "e", "p", "o", "r", "t", ".", "n", "e", "t">> }

abusePatterns ==
    { <<"c", "o", "m", "p", "l", "a", "i", "n", "t">>,
      <<"r", "e", "p", "o", "r", "t", "-", "s", "p", "a", "m">>,
      <<"a", "b", "u", "s", "e", "-", "r", "e", "p", "o", "r", "t">>,
      <<"s", "p", "a", "m", "-", "r", "e", "p", "o", "r", "t">> }

isAbuseEmail(email) ==
    \/ toLowerCase(extractDomain(email)) \in abuseDomains
    \/ \E pattern \in abusePatterns : includes(localPartOf(email), pattern)

toxicPatterns ==
    { <<"b", "o", "u", "n", "c", "e">>,
      <<"u", "n", "s", "u", "b", "s", "c", "r", "i", "b", "e">>,
      <<"o", "p", "t", "o", "u", "t">>,
      <<"o", "p", "t", "-", "o", "u", "t">>,
      <<"r", "e", "m", "o", "v", "e">>,
      <<"d", "o", "n", "o", "t", "m", "a", "i", "l">>,
      <<"d", "o", "-", "n", "o", "t", "-", "m", "a", "i", "l">>,
      <<"s", "u", "p", "p", "r", "e", "s", "s">>,
      <<"b", "l", "o", "c", "k">>,
      <<"b", "l", "a", "c", "k", "l", "i", "s", "t">> }

suppressionDomains ==
    { <<"d", "o", "n", "o", "t", "m", "a", "i", "l", ".", "c", "o", "m">>,
      <<"s", "u", "p", "p", "r", "e", "s", "s", "i", "o", "n", ".", "n", "e", "t">>,
      <<"b", "l", "a", "c", "k", "l", "i", "s", "t", ".", "c", "o", "m">> }

isToxicEmail(email) ==
    \/ toLowerCase(extractDomain(email)) \in suppressionDomains
    \/ \E pattern \in toxicPatterns : includes(localPartOf(email), pattern)

(***************************************************************************)
(* Inputs: the addresses a batch is drawn from.                            *)
(***************************************************************************)
\* a plain address at a free provider
EmailPlain == <<"j", "o", "@", "g", "m", "a", "i", "l", ".", "c", "o", "m">>
\* a disposable domain, in mixed case
EmailDisposable == <<"j", "o", "@", "G", "r", "r", ".", "l", "a">>
\* "spam" in the local part
EmailSpamTrap == <<"s", "p", "a", "m", "@", "c", "o", "r", "p", ".", "i", "o">>
\* a high-complaint domain
EmailAbuse == <<"j", "o", "@", "a", "b", "u", "s", "e", "m", "e", ".", "c", "o", "m">>
\* "block" in the local part
EmailToxic == <<"b", "l", "o", "c", "k", "@", "c", "o", "r", "p", ".", "i", "o">>
\* an empty domain label
EmailBadSyntax == <<"j", "o", "@", "c", "o", "r", "p", ".", ".", "i", "o">>
\* a role account
EmailRole == <<"I", "n", "f", "o", "@", "c", "o", "r", "p", ".", "i", "o">>
\* no "@"
EmailNoAt == <<"j", "o", ".", "g", "m", "a", "i", "l", ".", "c", "o", "m">>

\* the addresses in the order batches are cut from
SampleEmails ==
    << EmailPlain, EmailBadSyntax, EmailDisposable, EmailSpamTrap,
       EmailToxic, EmailRole, EmailAbuse, EmailNoAt >>

Emails == { SampleEmails[i] : i \in 1..Len(SampleEmails) }

\* the keys the batch can give the limiter's map
Domains == { extractDomain(e) : e \in { x \in Emails : validateEmailSyntax(x) } }

\* the batches the serve handler is given: NumEmails consecutive addresses
\* of SampleEmails, from every starting point
Batches ==
    { [i \in 1..NumEmails |->
          SampleEmails[((k + i - 2) % Len(SampleEmails)) + 1]] :
      k \in 1..Len(SampleEmails) }

(***************************************************************************)
(* What the DNS-over-HTTPS resolver can answer (index.ts:57-58, 84-85).    *)
(***************************************************************************)
\* the data of MX answers: "<priority> <exchange>."
MxData10 == <<"1", "0", " ", "m", "x", "1", ".", "i", "o", ".">>
MxData20 == <<"2", "0", " ", "m", "x", "2", ".", "i", "o", ".">>
\* an answer with no exchange
MxDataMalformed == <<"1", "0">>
\* the data of TXT answers
TxtDmarc == <<"\"", "v", "=", "D", "M", "A", "R", "C", "1", ";", " ", "p", "=", "n", "o", "n", "e", "\"">>
TxtOther == <<"\"", "v", "=", "s", "p", "f", "1", " ", "-", "a", "l", "l", "\"">>
DmarcWord == <<"v", "=", "d", "m", "a", "r", "c", "1">>

\* fetch or response.json() throws
DnsThrows == [kind |-> "throw", Status |-> 0, hasAnswer |-> FALSE, Answer |-> << >>]

\* a JSON body with the given Status and Answer
dnsJson(status, answer) ==
    [kind |-> "json", Status |-> status, hasAnswer |-> TRUE, Answer |-> answer]

\* a JSON body with no Answer member
dnsNoAnswer(status) ==
    [kind |-> "json", Status |-> status, hasAnswer |-> FALSE, Answer |-> << >>]

\* the responses to the MX query the model offers
MxResponses ==
    { DnsThrows, dnsNoAnswer(3), dnsNoAnswer(0), dnsJson(0, << >>),
      dnsJson(0, << MxDataMalformed >>),
      dnsJson(0, << MxData10 >>),
      dnsJson(0, << MxData20, MxData10 >>) }

\* the responses to the TXT query at _dmarc.<domain> the model offers
TxtResponses ==
    { DnsThrows, dnsNoAnswer(3), dnsJson(0, << TxtOther, TxtDmarc >>) }

\* the literals verifyEmail stores in error_message
MsgInvalidSyntax == <<"I", "n", "v", "a", "l", "i", "d", " ", "e", "m", "a", "i", "l", " ", "s", "y", "n", "t", "a", "x">>
MsgNoMx == <<"N", "o", " ", "v", "a", "l", "i", "d", " ", "M", "X", " ", "r", "e", "c", "o", "r", "d", "s", " ", "f", "o", "u", "n", "d">>
MsgSmtpFailed == <<"S", "M", "T", "P", " ", "v", "e", "r", "i", "f", "i", "c", "a", "t", "i", "o", "n", " ", "f", "a", "i", "l", "e", "d">>
MsgDisposable == <<"D", "i", "s", "p", "o", "s", "a", "b", "l", "e", "/", "t", "e", "m", "p", "o", "r", "a", "r", "y", " ", "e", "m", "a", "i", "l", " ", "a", "d", "d", "r", "e", "s", "s">>
MsgSpamTrap == <<"K", "n", "o", "w", "n", " ", "s", "p", "a", "m", " ", "t", "r", "a", "p", " ", "a", "d", "d", "r", "e", "s", "s">>
MsgAbuse == <<"H", "i", "g", "h", "-", "c", "o", "m", "p", "l", "a", "i", "n", "t", "/", "a", "b", "u", "s", "e", " ", "a", "d", "d", "r", "e", "s", "s">>
MsgToxic == <<"T", "o", "x", "i", "c", "/", "s", "u", "p", "p", "r", "e", "s", "s", "i", "o", "n", " ", "l", "i", "s", "t", " ", "a", "d", "d", "r", "e", "s", "s">>
MsgVerificationError == <<"V", "e", "r", "i", "f", "i", "c", "a", "t", "i", "o", "n", " ", "e", "r", "r", "o", "r", ":", " ">>
\* the TypeError of mxRecords[0].exchange on an empty list
MsgTypeError == <<"C", "a", "n", "n", "o", "t", " ", "r", "e", "a", "d", " ", "p", "r", "o", "p", "e", "r", "t", "i", "e", "s", " ", "o", "f", " ", "u", "n", "d", "e", "f", "i", "n", "e", "d", " ", "(", "r", "e", "a", "d", "i", "n", "g", " ", "'", "e", "x", "c", "h", "a", "n", "g", "e", "'", ")">>

\* error_message when it was never assigned (no string is equal to it)
Undefined == << "undefined" >>

(***************************************************************************)
(* What the mail server and the network can answer to one probe.           *)
(***************************************************************************)
\* readSMTPResponse results offered at the greeting
Greeting220 == <<"2", "2", "0", " ", "m", "x", "\r", "\n">>
Greeting554 == <<"5", "5", "4", " ", "n", "o", "\r", "\n">>
\* the stream ended before any byte arrived
GreetingEof == <<>>
GreetingReplies == { Greeting220, Greeting554, GreetingEof }

\* readSMTPResponse results offered after EHLO
EhloPlain == <<"2", "5", "0", " ", "m", "x", "\r", "\n">>
EhloStartTls == <<"2", "5", "0", "-", "m", "x", "\r", "\n", "2", "5", "0", " ", "S", "T", "A", "R", "T", "T", "L", "S", "\r", "\n">>
EhloReplies == { EhloPlain, EhloStartTls }

\* readSMTPResponse results offered after MAIL FROM
Mail250 == <<"2", "5", "0", " ", "O", "K", "\r", "\n">>
Mail451 == <<"4", "5", "1", " ", "n", "o", "\r", "\n">>
MailReplies == { Mail250, Mail451 }

\* readSMTPResponse results offered after RCPT TO
Rcpt250 == <<"2", "5", "0", " ", "O", "K", "\r", "\n">>
Rcpt251 == <<"2", "5", "1", " ", "f", "w", "d", "\r", "\n">>
Rcpt500 == <<"5", "0", "0", " ", "n", "o", "\r", "\n">>
Rcpt550 == <<"5", "5", "0", " ", "n", "o", "\r", "\n">>
Rcpt599 == <<"5", "9", "9", " ", "n", "o", "\r", "\n">>
Rcpt400 == <<"4", "0", "0", " ", "w", "\r", "\n">>
Rcpt421 == <<"4", "2", "1", " ", "b", "y", "e", "\r", "\n">>
Rcpt499 == <<"4", "9", "9", " ", "w", "\r", "\n">>
Rcpt252 == <<"2", "5", "2", " ", "?", "\r", "\n">>
Rcpt399 == <<"3", "9", "9", " ", "?", "\r", "\n">>
Rcpt600 == <<"6", "0", "0", " ", "?", "\r", "\n">>
RcptEof == <<>>
Rcpt252CatchAll == <<"2", "5", "2", " ", "C", "a", "t", "c", "h", "-", "a", "l", "l", "\r", "\n">>
Rcpt250AcceptAll == <<"2", "5", "0", " ", "a", "c", "c", "e", "p", "t", " ", "a", "l", "l", "\r", "\n">>
Rcpt550CatchAll == <<"5", "5", "0", " ", "c", "a", "t", "c", "h", "\r", "\n">>
Rcpt450AcceptAll == <<"4", "5", "0", " ", "A", "c", "c", "e", "p", "t", " ", "A", "l", "l", "\r", "\n">>
RcptReplies ==
    { Rcpt250, Rcpt251, Rcpt500, Rcpt550,
      Rcpt599, Rcpt400, Rcpt421, Rcpt499,
      Rcpt252, Rcpt399, Rcpt600, RcptEof,
      Rcpt252CatchAll, Rcpt250AcceptAll, Rcpt550CatchAll, Rcpt450AcceptAll }

\* readSMTPResponse results offered after QUIT
Quit221 == <<"2", "2", "1", " ", "b", "y", "e", "\r", "\n">>
QuitReplies == { Quit221 }

\* Error messages: the two the program raises itself (index.ts:279, 318) and
\* those of the runtime for a refused connect, a failed write, a failed read
ConnectionTimeout == <<"C", "o", "n", "n", "e", "c", "t", "i", "o", "n", " ", "t", "i", "m", "e", "o", "u", "t">>
SMTPReadTimeout == <<"S", "M", "T", "P", " ", "r", "e", "a", "d", " ", "t", "i", "m", "e", "o", "u", "t">>
ConnectionRefused == <<"C", "o", "n", "n", "e", "c", "t", "i", "o", "n", " ", "r", "e", "f", "u", "s", "e", "d">>
BrokenPipe == <<"B", "r", "o", "k", "e", "n", " ", "p", "i", "p", "e">>
ConnectionReset == <<"C", "o", "n", "n", "e", "c", "t", "i", "o", "n", " ", "r", "e", "s", "e", "t">>

\* the literals performSMTPCheck searches for
TimeoutWord == <<"t", "i", "m", "e", "o", "u", "t">>
StartTlsWord == <<"S", "T", "A", "R", "T", "T", "L", "S">>
CatchWord == <<"c", "a", "t", "c", "h">>
AcceptAllWord == <<"a", "c", "c", "e", "p", "t", " ", "a", "l", "l">>

\* the exchanger SpecProbe probes
ProbeMx == <<"m", "x", ".", "i", "o">>

(***************************************************************************)
(* State.                                                                  *)
(***************************************************************************)
VARIABLES
    \* DomainConcurrencyLimiter (index.ts:431-433)
    domainQueues,   \* Map<string, number>: domain -> in-flight count, absent = 0
    globalActive,   \* number
    otherActive,    \* the sum of domainQueues over the domains the model
                    \* does not name (it moves in SpecLimiter only)
    \* one performSMTPCheck call and the calls it makes to itself
    \* (index.ts:305-428)
    probePc,        \* the await the call is suspended at
    retryCount,     \* the parameter retryCount of the innermost call
    conn,           \* its local conn: 0 for null, else an index of sockets
    tlsEnabled,     \* its local tlsEnabled
    rcptResponse,   \* its local rcptResponse
    probeResult,    \* the smtp_details the outermost call resolved to
    sockets,        \* the TCP connections asked of Deno.connect, in order:
                    \* "connecting", "open", "closed" or "failed"
    rcptLog,        \* history: the RCPT TO reply code of each attempt that read one
    returnedFrom,   \* history: the return statement that produced probeResult
    dialogue,       \* history, per connection asked for: the commands written
                    \* to it and the ways its reads ended, in order
    \* one request to the serve handler (index.ts:560-620)
    emails,         \* the batch handed to Promise.all
    verifyPc,       \* per task: the await verifyEmail is suspended at
    result,         \* per task: verifyEmail's local result
    mxRecords,      \* per task: verifyEmail's local mxRecords
    calls,          \* history, per task: the fetch, acquire, release and
                    \* performSMTPCheck calls made so far
    results,        \* the handler's results array
    \* one request to the scoring variant's serve handler (part_000:463-539)
    scoringPc,      \* per task: the await its verifyEmail is suspended at
    scoringResult,  \* per task: its verifyEmail's local result
    scoringFetches, \* history, per task: the fetch calls made so far
    scoringChecks,  \* per task: its verifyEmail's locals domainExists,
                    \* mxRecords, hasSPF and hasDMARC
    \* the process around one request
    secondLimiter,  \* the limiter of a second request served at the same
                    \* time: its domainQueues and globalActive
    primaryExchanger,   \* the resolver's data: domain -> exchange of its
                        \* lowest-priority MX record
    dnsLookup,      \* one DNS lookup: the query, the resolver's response
                    \* and what the lookup function returned
    handler,        \* the serve handler: its request, its position, its
                    \* local emails (by length), its loop and its response
    wire            \* one connection of a probe seen from the socket: what
                    \* the server answers, the chunks no read has taken yet,
                    \* the position and the locals of performSMTPCheck

limiterVars == << domainQueues, globalActive, otherActive >>

probeVars ==
    << probePc, retryCount, conn, tlsEnabled, rcptResponse, probeResult,
       sockets, rcptLog, returnedFrom, dialogue >>

batchVars == << emails, verifyPc, result, mxRecords, calls, results >>

scoringVars == << scoringPc, scoringResult, scoringFetches, scoringChecks >>

processVars == << secondLimiter, primaryExchanger, dnsLookup, handler, wire >>

vars == << limiterVars, probeVars, batchVars, scoringVars, processVars >>

(***************************************************************************)
(* DomainConcurrencyLimiter, index.ts:431-456.                             *)
(***************************************************************************)
\* the condition of acquire's polling loop with >= read as >
acquireMustWaitOffByOne(domain) ==
    \/ globalActive > MAX_WORKERS
    \/ domainQueues[domain] > MAX_CONCURRENT_PER_DOMAIN

\* the condition of acquire's polling loop (index.ts:436-439): while it
\* holds the caller sleeps 100 ms and tests again
acquireMustWait(domain) ==
    \/ globalActive >= MAX_WORKERS
    \/ domainQueues[domain] >= MAX_CONCURRENT_PER_DOMAIN

\* acquire(domain) with the increment of globalActive left out
acquireDomainOnly(domain) ==
    /\ ~acquireMustWait(domain)
    /\ domainQueues' = [domainQueues EXCEPT ![domain] = @ + 1]
    /\ globalActive' = globalActive

\* acquire(domain), from the test that ends the loop to the return: no await
\* separates the test from the two increments (index.ts:443-444)
acquire(domain) ==
    /\ ~acquireMustWait(domain)
    /\ domainQueues' = [domainQueues EXCEPT ![domain] = @ + 1]
    /\ globalActive' = globalActive + 1

\* release(domain) with both decrements unconditional
releaseWithoutFloor(domain) ==
    /\ domainQueues' = [domainQueues EXCEPT ![domain] = @ - 1]
    /\ globalActive' = globalActive - 1

\* release(domain) with the decrement of the domain's count left out
releaseGlobalOnly(domain) ==
    /\ domainQueues' = domainQueues
    /\ globalActive' = IF globalActive > 0 THEN globalActive - 1 ELSE globalActive

\* release(domain) (index.ts:447-455)
release(domain) ==
    /\ domainQueues' =
           [domainQueues EXCEPT ![domain] = IF @ > 0 THEN @ - 1 ELSE @]
    /\ globalActive' = IF globalActive > 0 THEN globalActive - 1 ELSE globalActive

(***************************************************************************)
(* SpecLimiter: any caller may call acquire or release at any time.  The   *)
(* map has a key per domain string; the model names the keys of Domains    *)
(* and keeps the sum of all other entries in otherActive, so that the      *)
(* global cap is reached.                                                  *)
(***************************************************************************)
LimiterAcquire(domain) ==
    /\ acquire(domain)
    /\ UNCHANGED << otherActive, probeVars, batchVars, scoringVars, processVars >>

LimiterRelease(domain) ==
    /\ release(domain)
    /\ UNCHANGED << otherActive, probeVars, batchVars, scoringVars, processVars >>

\* acquire(d) for a domain d outside Domains whose count is below the
\* per-domain cap (there always is one: a fresh domain string)
OtherAcquire ==
    /\ globalActive < MAX_WORKERS
    /\ otherActive < MaxOther
    /\ otherActive' = otherActive + 1
    /\ globalActive' = globalActive + 1
    /\ UNCHANGED << domainQueues, probeVars, batchVars, scoringVars, processVars >>

\* release(d) for a domain d outside Domains whose count is above zero
OtherRelease ==
    /\ otherActive > 0
    /\ otherActive' = otherActive - 1
    /\ globalActive' = IF globalActive > 0 THEN globalActive - 1 ELSE globalActive
    /\ UNCHANGED << domainQueues, probeVars, batchVars, scoringVars, processVars >>

\* the domains SpecLimiter's callers name
LimiterDomains == { extractDomain(EmailPlain), extractDomain(EmailSpamTrap) }

LimiterNext ==
    \/ \E domain \in LimiterDomains : LimiterAcquire(domain)
    \/ \E domain \in LimiterDomains : LimiterRelease(domain)
    \/ OtherAcquire
    \/ OtherRelease


(***************************************************************************)
(* performSMTPCheck, index.ts:305-428.                                     *)
(***************************************************************************)
\* smtp_details before any probe returned (undefined in the program)
NoDetails ==
    [mx |-> << >>, code |-> 0, message |-> << >>, tls |-> FALSE, status |-> "none"]

\* parseInt(response.substring(0, 3))
replyCode(response) == parseInt(substring0(response, 3))

\* the greeting test with only 5xx codes refused
greetingRefusedOnly5xx(greetingCode) ==
    numGe(greetingCode, 500)

\* greetingCode !== 220 (index.ts:330)
greetingRefused(greetingCode) ==
    ~numEq(greetingCode, 220)

\* mailFromCode !== 250 (index.ts:357)
mailFromRefused(mailFromCode) ==
    ~numEq(mailFromCode, 250)

\* the object returned when the greeting is not 220 (index.ts:331-338) or
\* MAIL FROM is not answered 250 (index.ts:358-365)
abortDetails(mx, response, tls) ==
    [mx |-> mx, code |-> replyCode(response), message |-> trim(response),
     tls |-> tls, status |-> "unknown"]

\* rcptStatus with only 250 taken as valid
rcptStatusOnly250(rcptCode, response) ==
    IF numEq(rcptCode, 250) THEN "valid"
    ELSE IF numGe(rcptCode, 500) /\ numLt(rcptCode, 600) THEN "invalid"
    ELSE IF numGe(rcptCode, 400) /\ numLt(rcptCode, 500) THEN "temp_error"
    ELSE IF \/ includes(toLowerCase(response), CatchWord)
            \/ includes(toLowerCase(response), AcceptAllWord)
         THEN "catch_all"
    ELSE "unknown"

\* the if / else-if chain that sets status (index.ts:378-392)
rcptStatus(rcptCode, response) ==
    IF numEq(rcptCode, 250) \/ numEq(rcptCode, 251) THEN "valid"
    ELSE IF numGe(rcptCode, 500) /\ numLt(rcptCode, 600) THEN "invalid"
    ELSE IF numGe(rcptCode, 400) /\ numLt(rcptCode, 500) THEN "temp_error"
    ELSE IF \/ includes(toLowerCase(response), CatchWord)
            \/ includes(toLowerCase(response), AcceptAllWord)
         THEN "catch_all"
    ELSE "unknown"

\* the object returned after RCPT TO (index.ts:394-401)
rcptDetails(mx, response, tls) ==
    [mx |-> mx, code |-> replyCode(response), message |-> trim(response),
     tls |-> tls, status |-> rcptStatus(replyCode(response), response)]

\* rcptDetails of every RCPT TO reply offered, by the reply and by
\* tlsEnabled
rcptVerdicts ==
    [response \in RcptReplies |->
         [tls \in BOOLEAN |-> rcptDetails(ProbeMx, response, tls)]]

\* the object returned by the catch block (index.ts:411-418)
errorDetails(mx, errorMessage) ==
    [mx |-> mx, code |-> 0, message |-> errorMessage, tls |-> FALSE,
     status |-> "unknown"]

\* the ways an awaited readSMTPResponse can end (index.ts:274-296): the text
\* read so far once it holds a CRLF or the stream is done, the rejection of
\* the timeout promise, or a rejection of reader.read()
readOutcomes(replies) ==
    { [kind |-> "data", text |-> r] : r \in replies }
        \cup { [kind |-> "timeout", text |-> << >>],
               [kind |-> "error", text |-> << >>] }

\* the message of a failed read when the timer's rejection does not say
\* timeout
readErrorMessageNoTimeout(outcome) ==
    ConnectionReset

\* the message of the Error a failed read rejects with
readErrorMessage(outcome) ==
    IF outcome.kind = "timeout" THEN SMTPReadTimeout ELSE ConnectionReset

\* history: the write of a command on the current connection
written(command) ==
    [dialogue EXCEPT ![conn] = Append(@, [op |-> "write", what |-> command])]

\* history: the end of a readSMTPResponse on the current connection, with
\* the text it returned and its reply code (NaN when it returned none)
readEnded(outcome) ==
    [dialogue EXCEPT ![conn] =
         Append(@, [op |-> "read", what |-> outcome.kind,
                    text |-> outcome.text,
                    code |-> IF outcome.kind = "data"
                             THEN replyCode(outcome.text) ELSE NaN])]

\* finally (index.ts:419-427): conn.close() when conn is set
closeConn(socks) ==
    IF conn # 0 THEN [socks EXCEPT ![conn] = "closed"] ELSE socks

\* a return statement of performSMTPCheck, followed by the finally block
probeReturn(details, from, socks) ==
    /\ probeResult' = details
    /\ returnedFrom' = from
    /\ sockets' = closeConn(socks)
    /\ probePc' = "returned"
    /\ UNCHANGED << retryCount, conn, tlsEnabled, rcptResponse, rcptLog >>

\* the catch block retrying whatever the message
probeCatchAlsoTimeouts(errorMessage, socks) ==
    IF retryCount < MAX_RETRIES
    THEN /\ probePc' = "backoff"
         /\ sockets' = socks
         /\ UNCHANGED << retryCount, conn, tlsEnabled, rcptResponse, rcptLog,
                         probeResult, returnedFrom >>
    ELSE probeReturn(errorDetails(ProbeMx, errorMessage), "catch", socks)

\* the catch block retrying once more than the budget allows
probeCatchOnceMore(errorMessage, socks) ==
    IF retryCount <= MAX_RETRIES /\ ~includes(errorMessage, TimeoutWord)
    THEN /\ probePc' = "backoff"
         /\ sockets' = socks
         /\ UNCHANGED << retryCount, conn, tlsEnabled, rcptResponse, rcptLog,
                         probeResult, returnedFrom >>
    ELSE probeReturn(errorDetails(ProbeMx, errorMessage), "catch", socks)

\* the catch block (index.ts:402-418): sleep and retry unless the budget is
\* spent or the message contains "timeout", else return unknown with code 0
probeCatch(errorMessage, socks) ==
    IF retryCount < MAX_RETRIES /\ ~includes(errorMessage, TimeoutWord)
    THEN /\ probePc' = "backoff"
         /\ sockets' = socks
         /\ UNCHANGED << retryCount, conn, tlsEnabled, rcptResponse, rcptLog,
                         probeResult, returnedFrom >>
    ELSE probeReturn(errorDetails(ProbeMx, errorMessage), "catch", socks)

\* await writeSMTPCommand(writer, ...) (index.ts:299-302): the write
\* resolves, or it rejects and the catch block runs
writeSMTPCommand(at, next, command) ==
    /\ UNCHANGED << limiterVars, batchVars, scoringVars, processVars >>
    /\ probePc = at
    /\ dialogue' = written(command)
    /\ \/ /\ probePc' = next
          /\ UNCHANGED << retryCount, conn, sockets, tlsEnabled, rcptResponse,
                          rcptLog, probeResult, returnedFrom >>
       \/ probeCatch(BrokenPipe, sockets)

\* performSMTPCheck(email, mx) is called: Deno.connect is issued and raced
\* against the connect timer (index.ts:315-320)
ProbeCall ==
    /\ UNCHANGED << limiterVars, batchVars, scoringVars, processVars >>
    /\ probePc = "idle"
    /\ sockets' = Append(sockets, "connecting")
    /\ dialogue' = Append(dialogue, << >>)
    /\ probePc' = "connect"
    /\ UNCHANGED << retryCount, conn, tlsEnabled, rcptResponse, rcptLog,
                    probeResult, returnedFrom >>

\* Deno.connect resolves before the timer: conn is set (index.ts:315)
ConnectResolves ==
    /\ UNCHANGED << limiterVars, batchVars, scoringVars, processVars, dialogue >>
    /\ probePc = "connect"
    /\ sockets[Len(sockets)] = "connecting"
    /\ sockets' = [sockets EXCEPT ![Len(sockets)] = "open"]
    /\ conn' = Len(sockets)
    /\ probePc' = "greeting"
    /\ UNCHANGED << retryCount, tlsEnabled, rcptResponse, rcptLog, probeResult,
                    returnedFrom >>

\* Deno.connect rejects before the timer (the host refuses)
ConnectRejects ==
    /\ UNCHANGED << limiterVars, batchVars, scoringVars, processVars, dialogue >>
    /\ probePc = "connect"
    /\ sockets[Len(sockets)] = "connecting"
    /\ probeCatch(ConnectionRefused, [sockets EXCEPT ![Len(sockets)] = "failed"])

\* the connect timer fires first (index.ts:317-319); nothing cancels the
\* pending Deno.connect
ConnectTimesOut ==
    /\ UNCHANGED << limiterVars, batchVars, scoringVars, processVars, dialogue >>
    /\ probePc = "connect"
    /\ sockets[Len(sockets)] = "connecting"
    /\ probeCatch(ConnectionTimeout, sockets)

\* a Deno.connect whose race was lost to the timer settles later: the
\* connection is established, with no reference to it left in the program
LateConnectResolves ==
    /\ UNCHANGED << limiterVars, batchVars, scoringVars, processVars, dialogue >>
    /\ probePc # "connect"
    /\ \E i \in 1..Len(sockets) :
           /\ sockets[i] = "connecting"
           /\ sockets' = [sockets EXCEPT ![i] = "open"]
    /\ UNCHANGED << probePc, retryCount, conn, tlsEnabled, rcptResponse,
                    rcptLog, probeResult, returnedFrom >>

\* ... or it fails
LateConnectRejects ==
    /\ UNCHANGED << limiterVars, batchVars, scoringVars, processVars, dialogue >>
    /\ probePc # "connect"
    /\ \E i \in 1..Len(sockets) :
           /\ sockets[i] = "connecting"
           /\ sockets' = [sockets EXCEPT ![i] = "failed"]
    /\ UNCHANGED << probePc, retryCount, conn, tlsEnabled, rcptResponse,
                    rcptLog, probeResult, returnedFrom >>

\* the greeting is read (index.ts:327-339)
ReadGreeting ==
    /\ UNCHANGED << limiterVars, batchVars, scoringVars, processVars >>
    /\ probePc = "greeting"
    /\ \E outcome \in readOutcomes(GreetingReplies) :
           /\ dialogue' = readEnded(outcome)
           /\ IF outcome.kind # "data"
              THEN probeCatch(readErrorMessage(outcome), sockets)
              ELSE IF greetingRefused(replyCode(outcome.text))
              THEN probeReturn(abortDetails(ProbeMx, outcome.text, FALSE),
                               "greeting", sockets)
              ELSE /\ probePc' = "write_ehlo"
                   /\ UNCHANGED << retryCount, conn, sockets, tlsEnabled,
                                   rcptResponse, rcptLog, probeResult, returnedFrom >>

\* EHLO is written (index.ts:342)
WriteEhlo == writeSMTPCommand("write_ehlo", "read_ehlo", "EHLO")

\* the EHLO response is read and searched for STARTTLS (index.ts:343-350)
ReadEhlo ==
    /\ UNCHANGED << limiterVars, batchVars, scoringVars, processVars >>
    /\ probePc = "read_ehlo"
    /\ \E outcome \in readOutcomes(EhloReplies) :
           /\ dialogue' = readEnded(outcome)
           /\ IF outcome.kind # "data"
              THEN probeCatch(readErrorMessage(outcome), sockets)
              ELSE /\ tlsEnabled' = includes(outcome.text, StartTlsWord)
                   /\ probePc' = "write_mail"
                   /\ UNCHANGED << retryCount, conn, sockets, rcptResponse, rcptLog,
                                   probeResult, returnedFrom >>

\* MAIL FROM is written (index.ts:353)
WriteMail == writeSMTPCommand("write_mail", "read_mail", "MAIL FROM")

\* the MAIL FROM response is read (index.ts:354-366)
ReadMail ==
    /\ UNCHANGED << limiterVars, batchVars, scoringVars, processVars >>
    /\ probePc = "read_mail"
    /\ \E outcome \in readOutcomes(MailReplies) :
           /\ dialogue' = readEnded(outcome)
           /\ IF outcome.kind # "data"
              THEN probeCatch(readErrorMessage(outcome), sockets)
              ELSE IF mailFromRefused(replyCode(outcome.text))
              THEN probeReturn(abortDetails(ProbeMx, outcome.text, tlsEnabled),
                               "mail", sockets)
              ELSE /\ probePc' = "write_rcpt"
                   /\ UNCHANGED << retryCount, conn, sockets, tlsEnabled,
                                   rcptResponse, rcptLog, probeResult, returnedFrom >>

\* RCPT TO is written (index.ts:369)
WriteRcpt == writeSMTPCommand("write_rcpt", "read_rcpt", "RCPT TO")

\* the RCPT TO response is read (index.ts:370-371)
ReadRcpt ==
    /\ UNCHANGED << limiterVars, batchVars, scoringVars, processVars >>
    /\ probePc = "read_rcpt"
    /\ \E outcome \in readOutcomes(RcptReplies) :
           /\ dialogue' = readEnded(outcome)
           /\ IF outcome.kind # "data"
              THEN probeCatch(readErrorMessage(outcome), sockets)
              ELSE /\ rcptResponse' = outcome.text
                   /\ rcptLog' = Append(rcptLog, replyCode(outcome.text))
                   /\ probePc' = "write_quit"
                   /\ UNCHANGED << retryCount, conn, sockets, tlsEnabled,
                                   probeResult, returnedFrom >>

\* the last command written as DATA
WriteQuitAsData == writeSMTPCommand("write_quit", "read_quit", "DATA")

\* QUIT is written (index.ts:374)
WriteQuit == writeSMTPCommand("write_quit", "read_quit", "QUIT")

\* the QUIT response is awaited for a second, its failure swallowed
\* (index.ts:375); then the status is set from the RCPT TO reply and a 4xx
\* with budget left goes to sleep before the retry (index.ts:378-401)
ReadQuit ==
    /\ UNCHANGED << limiterVars, batchVars, scoringVars, processVars >>
    /\ probePc = "read_quit"
    /\ \E outcome \in readOutcomes(QuitReplies) :
           /\ dialogue' = readEnded(outcome)
           /\ IF /\ rcptVerdicts[rcptResponse][tlsEnabled].status = "temp_error"
                 /\ retryCount < MAX_RETRIES
              THEN /\ probePc' = "backoff"
                   /\ UNCHANGED << retryCount, conn, sockets, tlsEnabled,
                                   rcptResponse, rcptLog, probeResult, returnedFrom >>
              ELSE probeReturn(rcptVerdicts[rcptResponse][tlsEnabled],
                               "rcpt", sockets)

\* the retry with the finally block left out: the connection stays open
ProbeRetryKeepsConn ==
    /\ UNCHANGED << limiterVars, batchVars, scoringVars, processVars >>
    /\ probePc = "backoff"
    /\ sockets' = Append(sockets, "connecting")
    /\ dialogue' = Append(dialogue, << >>)
    /\ conn' = 0
    /\ retryCount' = retryCount + 1
    /\ tlsEnabled' = FALSE
    /\ rcptResponse' = << >>
    /\ probePc' = "connect"
    /\ UNCHANGED << rcptLog, probeResult, returnedFrom >>

\* the sleep of 2^retryCount seconds is over (index.ts:387-388, 407-408):
\* return performSMTPCheck(email, mx, retryCount + 1) issues the next
\* Deno.connect, then this call's finally block closes its connection
ProbeRetry ==
    /\ UNCHANGED << limiterVars, batchVars, scoringVars, processVars >>
    /\ probePc = "backoff"
    /\ sockets' = Append(closeConn(sockets), "connecting")
    /\ dialogue' = Append(dialogue, << >>)
    /\ conn' = 0
    /\ retryCount' = retryCount + 1
    /\ tlsEnabled' = FALSE
    /\ rcptResponse' = << >>
    /\ probePc' = "connect"
    /\ UNCHANGED << rcptLog, probeResult, returnedFrom >>

ProbeInit ==
    /\ probePc = "idle"
    /\ retryCount = 0
    /\ conn = 0
    /\ sockets = << >>
    /\ tlsEnabled = FALSE
    /\ rcptResponse = << >>
    /\ rcptLog = << >>
    /\ probeResult = NoDetails
    /\ returnedFrom = "none"
    /\ dialogue = << >>

ProbeNext ==
    \/ ProbeCall
    \/ ConnectResolves
    \/ ConnectRejects
    \/ ConnectTimesOut
    \/ LateConnectResolves
    \/ LateConnectRejects
    \/ ReadGreeting
    \/ WriteEhlo
    \/ ReadEhlo
    \/ WriteMail
    \/ ReadMail
    \/ WriteRcpt
    \/ ReadRcpt
    \/ WriteQuit
    \/ ReadQuit
    \/ ProbeRetry

(***************************************************************************)
(* getMXRecords and checkDMARC, index.ts:55-103.                           *)
(***************************************************************************)
\* parts[1].replace(/\.$/, '')
stripTrailingDot(s) ==
    IF Len(s) > 0 /\ s[Len(s)] = "." THEN SubSeq(s, 1, Len(s) - 1) ELSE s

\* record.data.split(' ') has no second part: parts[1].replace throws
mxDataThrows(data) == Len(split(data, " ")) < 2

\* the object Answer.map builds from one record (index.ts:65-70)
parseMxRecord(data) ==
    LET parts == split(data, " ")
    IN  [priority |-> parseInt(parts[1]), exchange |-> stripTrailingDot(parts[2])]

\* (a, b) => a.priority - b.priority is negative
priorityBefore(a, b) ==
    /\ a.priority # NaN
    /\ b.priority # NaN
    /\ a.priority < b.priority

\* .sort(...) on the parsed list: a stable sort, by insertion
RECURSIVE sortByPriority(_)
sortByPriority(records) ==
    IF Len(records) <= 1 THEN records
    ELSE LET front == sortByPriority(SubSeq(records, 1, Len(records) - 1))
             last  == records[Len(records)]
             keep  == { i \in 0..Len(front) :
                          \A j \in (i + 1)..Len(front) :
                              priorityBefore(last, front[j]) }
             at    == CHOOSE i \in keep : \A k \in keep : i <= k
         IN  SubSeq(front, 1, at) \o << last >>
                 \o SubSeq(front, at + 1, Len(front))

\* getMXRecords(domain) given what the resolver answered
getMXRecords(response) ==
    IF response.kind = "throw" THEN << >>
    ELSE IF \/ response.Status # 0
            \/ ~response.hasAnswer
            \/ Len(response.Answer) = 0
         THEN << >>
    ELSE IF \E i \in 1..Len(response.Answer) : mxDataThrows(response.Answer[i])
         THEN << >>
    ELSE sortByPriority([i \in 1..Len(response.Answer) |->
                             parseMxRecord(response.Answer[i])])

\* checkDMARC(domain) given what the resolver answered
checkDMARC(response) ==
    IF response.kind = "throw" THEN FALSE
    ELSE IF response.Status # 0 THEN FALSE
    ELSE IF response.hasAnswer /\ Len(response.Answer) > 0
         THEN \E i \in 1..Len(response.Answer) :
                  includes(toLowerCase(response.Answer[i]), DmarcWord)
    ELSE FALSE

(***************************************************************************)
(* verifyEmail and the serve handler, index.ts:459-620.  The handler makes *)
(* one limiter and starts verifyEmail for every address of the batch at    *)
(* once (Promise.all); task t verifies emails[t].                          *)
(***************************************************************************)
Tasks == 1..NumEmails

\* the object verifyEmail starts from (index.ts:460-474)
newResult(email) ==
    [email |-> email, can_send |-> "no", syntax_valid |-> FALSE,
     dns_valid |-> FALSE, smtp_valid |-> FALSE, smtp_details |-> NoDetails,
     dmarc_valid |-> FALSE, is_disposable |-> FALSE, is_role_based |-> FALSE,
     is_free_provider |-> FALSE, is_catch_all |-> FALSE,
     is_spam_trap |-> FALSE, is_abuse |-> FALSE, is_toxic |-> FALSE,
     error_message |-> Undefined]

\* no call made yet
NoCalls == [fetch |-> 0, acquire |-> 0, release |-> 0, probe |-> 0]

\* the instant checks (index.ts:487-492)
instantChecks(r) ==
    LET domain == extractDomain(r.email)
    IN  [r EXCEPT !.is_disposable = isDisposableEmail(domain),
                  !.is_role_based = isRoleBasedEmail(r.email),
                  !.is_free_provider = isFreeProvider(domain),
                  !.is_spam_trap = isSpamTrap(r.email),
                  !.is_abuse = isAbuseEmail(r.email),
                  !.is_toxic = isToxicEmail(r.email)]

\* dns_valid with an empty list accepted
dnsValidAlways(records) == Len(records) >= 0

\* mxRecords.length > 0 (index.ts:500)
dnsValid(records) == Len(records) > 0

\* what performSMTPCheck(email, primaryMX) can resolve to: it never rejects
\* (every path of index.ts:305-428 ends in a return)
smtpCheckOutcomes(mx) ==
    { rcptDetails(mx, r, FALSE) :
          r \in { Rcpt250, Rcpt550, Rcpt421, Rcpt252, Rcpt252CatchAll } }
        \cup { abortDetails(mx, GreetingEof, FALSE),
               errorDetails(mx, ConnectionTimeout) }

\* the assignments after the probe resolved with smtp_valid taken from
\* the classification valid alone
withSmtpDetailsValidOnly(r, details) ==
    [r EXCEPT !.smtp_details = details,
              !.smtp_valid = details.status = "valid",
              !.is_catch_all = IF details.status = "catch_all" THEN TRUE ELSE @]

\* the assignments after the probe resolved (index.ts:516-522):
\* is_catch_all is set when the classification is catch_all and left as
\* it is otherwise
withSmtpDetails(r, details) ==
    [r EXCEPT !.smtp_details = details,
              !.smtp_valid = details.status \in { "valid", "catch_all" },
              !.is_catch_all = IF details.status = "catch_all" THEN TRUE ELSE @]

\* concludeVerification without the test of is_toxic
concludeVerificationWithoutToxic(r) ==
    IF ~r.smtp_valid /\ r.smtp_details.status # "temp_error"
    THEN [r EXCEPT !.error_message =
                       IF r.smtp_details.message # << >>
                       THEN r.smtp_details.message ELSE MsgSmtpFailed]
    ELSE IF r.is_disposable THEN [r EXCEPT !.error_message = MsgDisposable]
    ELSE IF r.is_spam_trap THEN [r EXCEPT !.error_message = MsgSpamTrap]
    ELSE IF r.is_abuse THEN [r EXCEPT !.error_message = MsgAbuse]
    ELSE IF r.syntax_valid /\ r.dns_valid /\ r.smtp_valid
         THEN [r EXCEPT !.can_send = "yes"]
    ELSE r

\* from the test after the finally block to the return (index.ts:529-552)
concludeVerification(r) ==
    IF ~r.smtp_valid /\ r.smtp_details.status # "temp_error"
    THEN [r EXCEPT !.error_message =
                       IF r.smtp_details.message # << >>
                       THEN r.smtp_details.message ELSE MsgSmtpFailed]
    ELSE IF r.is_disposable THEN [r EXCEPT !.error_message = MsgDisposable]
    ELSE IF r.is_spam_trap THEN [r EXCEPT !.error_message = MsgSpamTrap]
    ELSE IF r.is_abuse THEN [r EXCEPT !.error_message = MsgAbuse]
    ELSE IF r.is_toxic THEN [r EXCEPT !.error_message = MsgToxic]
    ELSE IF r.syntax_valid /\ r.dns_valid /\ r.smtp_valid
         THEN [r EXCEPT !.can_send = "yes"]
    ELSE r

\* verifyEmail from its call to its first await: the syntax check, which
\* returns at once when it fails, the instant checks, and the two fetches
\* Promise.all starts (index.ts:459-498)
VerifyEmailCall(t) ==
    /\ verifyPc[t] = "start"
    /\ LET r == [newResult(emails[t]) EXCEPT
                     !.syntax_valid = validateEmailSyntax(emails[t])]
       IN  IF ~r.syntax_valid
           THEN /\ result' = [result EXCEPT ![t] =
                                  [r EXCEPT !.error_message = MsgInvalidSyntax]]
                /\ verifyPc' = [verifyPc EXCEPT ![t] = "done"]
                /\ UNCHANGED calls
           ELSE /\ result' = [result EXCEPT ![t] = instantChecks(r)]
                /\ verifyPc' = [verifyPc EXCEPT ![t] = "dns"]
                /\ calls' = [calls EXCEPT ![t].fetch = @ + 2]
    /\ UNCHANGED << emails, mxRecords, results, limiterVars, probeVars,
                    scoringVars, processVars >>

\* both lookups settled: dns_valid and dmarc_valid, the return when there is
\* no MX record, primaryMX (whose evaluation throws on an empty list, into
\* the catch block of index.ts:553-557), and the call of acquire
\* (index.ts:495-512)
DnsSettles(t) ==
    /\ verifyPc[t] = "dns"
    /\ \E mxResponse \in MxResponses, txtResponse \in TxtResponses :
           LET records == getMXRecords(mxResponse)
               r == [result[t] EXCEPT !.dns_valid = dnsValid(records),
                                      !.dmarc_valid = checkDMARC(txtResponse)]
           IN  /\ mxRecords' = [mxRecords EXCEPT ![t] = records]
               /\ IF ~r.dns_valid
                  THEN /\ result' = [result EXCEPT ![t] =
                                         [r EXCEPT !.error_message = MsgNoMx]]
                       /\ verifyPc' = [verifyPc EXCEPT ![t] = "done"]
                  ELSE IF Len(records) = 0
                  THEN /\ result' = [result EXCEPT ![t] =
                                         [r EXCEPT !.error_message =
                                              MsgVerificationError \o MsgTypeError]]
                       /\ verifyPc' = [verifyPc EXCEPT ![t] = "done"]
                  ELSE /\ result' = [result EXCEPT ![t] = r]
                       /\ verifyPc' = [verifyPc EXCEPT ![t] = "acquire"]
    /\ UNCHANGED << emails, calls, results, limiterVars, probeVars,
                    scoringVars, processVars >>

\* limiter.acquire(domain) returns, and performSMTPCheck is called
\* (index.ts:512-516)
AcquireReturns(t) ==
    /\ verifyPc[t] = "acquire"
    /\ acquire(extractDomain(emails[t]))
    /\ calls' = [calls EXCEPT ![t].acquire = @ + 1, ![t].probe = @ + 1]
    /\ verifyPc' = [verifyPc EXCEPT ![t] = "probe"]
    /\ UNCHANGED << emails, result, mxRecords, results, otherActive, probeVars,
                    scoringVars, processVars >>

\* the release placed after the return of index.ts:529-532
finallyReleaseAfterReturn(t) ==
    IF ~result'[t].smtp_valid /\ result'[t].smtp_details.status # "temp_error"
    THEN UNCHANGED << domainQueues, globalActive, calls >>
    ELSE /\ release(extractDomain(emails[t]))
         /\ calls' = [calls EXCEPT ![t].release = @ + 1]

\* the finally block of index.ts:523-527
finallyRelease(t) ==
    /\ release(extractDomain(emails[t]))
    /\ calls' = [calls EXCEPT ![t].release = @ + 1]

\* the probe resolved: smtp_details, smtp_valid and is_catch_all, the
\* release, and the rest of verifyEmail (index.ts:516-552)
ProbeSettles(t) ==
    /\ verifyPc[t] = "probe"
    /\ \E details \in smtpCheckOutcomes(mxRecords[t][1].exchange) :
           result' = [result EXCEPT ![t] =
                          concludeVerification(withSmtpDetails(result[t], details))]
    /\ finallyRelease(t)
    /\ verifyPc' = [verifyPc EXCEPT ![t] = "done"]
    /\ UNCHANGED << emails, mxRecords, results, otherActive, probeVars,
                    scoringVars, processVars >>

\* the result carries no error_message
hasNoError(r) == r.error_message = Undefined

\* batchResults with the results that carry an error_message left out
batchResultsWithoutErrors ==
    SelectSeq([t \in Tasks |-> result[t]], hasNoError)

\* what Promise.all(batch.map(...)) resolves to: the value of every
\* verifyEmail call, in the order of the batch (index.ts:588-590)
batchResults == [t \in Tasks |-> result[t]]

\* Promise.all resolved: the batch's results are pushed in the order of the
\* batch (index.ts:588-591)
BatchSettles ==
    /\ results = << >>
    /\ \A t \in Tasks : verifyPc[t] = "done"
    /\ results' = batchResults
    /\ UNCHANGED << emails, verifyPc, result, mxRecords, calls, limiterVars,
                    probeVars, scoringVars, processVars >>

\* no verifyEmail of this variant was called
BatchIdle ==
    /\ verifyPc = [t \in Tasks |-> "idle"]
    /\ result = << >>
    /\ mxRecords = << >>
    /\ calls = << >>
    /\ results = << >>

(***************************************************************************)
(* The scoring variant of the verifier, src/unnamed/part_000.  Its         *)
(* validateEmailSyntax, extractDomain and address classifiers are the      *)
(* ones above, line for line, and its getMXRecords and checkDMARC differ   *)
(* from the ones above by the AbortController only, whose abort makes the  *)
(* fetch throw.                                                            *)
(***************************************************************************)
\* KNOWN_MX_PATTERNS.valid (part_000:32-41): each pattern is anchored at the end
knownValidSuffixes ==
    { <<"g", "o", "o", "g", "l", "e", ".", "c", "o", "m">>,
      <<"g", "o", "o", "g", "l", "e", "m", "a", "i", "l", ".", "c", "o", "m">>,
      <<"o", "u", "t", "l", "o", "o", "k", ".", "c", "o", "m">>,
      <<"h", "o", "t", "m", "a", "i", "l", ".", "c", "o", "m">>,
      <<"y", "a", "h", "o", "o", ".", "c", "o", "m">>,
      <<"m", "a", "i", "l", ".", "p", "r", "o", "t", "e", "c", "t", "i", "o", "n", ".", "o", "u", "t", "l", "o", "o", "k", ".", "c", "o", "m">>,
      <<"a", "s", "p", "m", "x", ".", "l", ".", "g", "o", "o", "g", "l", "e", ".", "c", "o", "m">>,
      <<"m", "x", ".", "z", "o", "h", "o", ".", "c", "o", "m">>,
      <<"m", "a", "i", "l", ".", "p", "r", "o", "t", "o", "n", "m", "a", "i", "l", ".", "c", "h">> }

\* KNOWN_MX_PATTERNS.suspicious (part_000:42-46): each pattern matches anywhere
suspiciousWords ==
    { <<"l", "o", "c", "a", "l", "h", "o", "s", "t">>,
      <<"e", "x", "a", "m", "p", "l", "e", ".", "c", "o", "m">>,
      <<"t", "e", "s", "t", ".", "c", "o", "m">> }


SpfWord == <<"v", "=", "s", "p", "f", "1">>
MsgKnownBad == <<"K", "n", "o", "w", "n", " ", "b", "a", "d", " ", "a", "d", "d", "r", "e", "s", "s">>
\* the data of MX answers naming a known and a suspicious exchanger
MxData5Google == <<"5", " ", "A", "S", "P", "M", "X", ".", "L", ".", "G", "O", "O", "G", "L", "E", ".", "C", "O", "M", ".">>
MxData10Test == <<"1", "0", " ", "m", "a", "i", "l", ".", "t", "e", "s", "t", ".", "c", "o", "m", ".">>
MxData20Google == <<"2", "0", " ", "a", "s", "p", "m", "x", ".", "l", ".", "g", "o", "o", "g", "l", "e", ".", "c", "o", "m", ".">>
MxData5TestGoogle == <<"5", " ", "t", "e", "s", "t", ".", "c", "o", "m", ".", "g", "o", "o", "g", "l", "e", ".", "c", "o", "m", ".">>
\* the data of an A answer
AData == <<"1", "9", "2", ".", "0", ".", "2", ".", "1">>

\* the responses to the A query the model offers
AResponses == { DnsThrows, dnsNoAnswer(0), dnsJson(0, << AData >>) }

\* the responses to the MX query the model offers to the scoring variant
ScoringMxResponses ==
    { DnsThrows, dnsNoAnswer(3),
      dnsJson(0, << MxData10 >>),
      dnsJson(0, << MxData20, MxData10 >>),
      dnsJson(0, << MxData20 >>),
      dnsJson(0, << MxData10Test >>),
      dnsJson(0, << MxData10, MxData5Google >>),
      dnsJson(0, << MxData20Google >>),
      dnsJson(0, << MxData20, MxData5TestGoogle >>) }

\* String.prototype.endsWith, the test of a pattern that ends in $
endsWith(s, p) ==
    Len(p) <= Len(s) /\ SubSeq(s, Len(s) - Len(p) + 1, Len(s)) = p

\* checkDomainExists(domain) given what the resolver answered
\* (part_000:93-109)
checkDomainExists(response) ==
    /\ response.kind # "throw"
    /\ response.Status = 0
    /\ response.hasAnswer
    /\ Len(response.Answer) > 0

\* checkSPF(domain) given what the resolver answered (part_000:112-135)
checkSPF(response) ==
    /\ response.kind # "throw"
    /\ response.Status = 0
    /\ response.hasAnswer
    /\ \E i \in 1..Len(response.Answer) :
           includes(toLowerCase(response.Answer[i]), SpfWord)

\* isCatchAllDomain(domain, mxRecords) (part_000:257-275)
isCatchAllDomain(records) ==
    /\ Len(records) = 1
    /\ records[1].priority # NaN
    /\ records[1].priority <= 10

\* Math.min(100, score), the lower end of the range not enforced
clampScoreWithoutFloor(score) ==
    IF score > 100 THEN 100 ELSE score

\* Math.max(0, Math.min(100, score))
clampScore(score) ==
    IF score < 0 THEN 0 ELSE IF score > 100 THEN 100 ELSE score

\* calculateSMTPScore with the penalty of a suspicious exchanger left out
calculateSMTPScoreNoSuspicion(records, hasSPF, hasDMARC, domainExists, isDisposable, isRole, isCatchAll) ==
    LET primaryMX    == toLowerCase(records[1].exchange)
        isKnownValid == \E p \in knownValidSuffixes : endsWith(primaryMX, p)
    IN  clampScore(
            (IF domainExists THEN 20 ELSE 0)
            + (IF Len(records) > 0
               THEN 30 + (IF isKnownValid THEN 15 ELSE 0)
                       + (IF Len(records) > 1 THEN 5 ELSE 0)
               ELSE 0)
            + (IF hasSPF THEN 10 ELSE 0)
            + (IF hasDMARC THEN 10 ELSE 0)
            - (IF isDisposable THEN 40 ELSE 0)
            - (IF isRole THEN 10 ELSE 0)
            - (IF isCatchAll THEN 15 ELSE 0))

\* calculateSMTPScore (part_000:278-322)
calculateSMTPScore(records, hasSPF, hasDMARC, domainExists, isDisposable, isRole, isCatchAll) ==
    LET primaryMX    == toLowerCase(records[1].exchange)
        isKnownValid == \E p \in knownValidSuffixes : endsWith(primaryMX, p)
        isSuspicious == \E p \in suspiciousWords : includes(primaryMX, p)
    IN  clampScore(
            (IF domainExists THEN 20 ELSE 0)
            + (IF Len(records) > 0
               THEN 30 + (IF isKnownValid THEN 15 ELSE 0)
                       - (IF isSuspicious THEN 30 ELSE 0)
                       + (IF Len(records) > 1 THEN 5 ELSE 0)
               ELSE 0)
            + (IF hasSPF THEN 10 ELSE 0)
            + (IF hasDMARC THEN 10 ELSE 0)
            - (IF isDisposable THEN 40 ELSE 0)
            - (IF isRole THEN 10 ELSE 0)
            - (IF isCatchAll THEN 15 ELSE 0))

\* the status a score gives when the first threshold is exclusive
scoreStatusAbove90(score) ==
    IF score > 90 THEN "valid"
    ELSE IF score >= 60 THEN "risky"
    ELSE IF score >= 30 THEN "unknown"
    ELSE "invalid"

\* the status a score gives when risky starts at 40
scoreStatusRiskyFrom40(score) ==
    IF score >= 90 THEN "valid"
    ELSE IF score >= 40 THEN "risky"
    ELSE IF score >= 30 THEN "unknown"
    ELSE "invalid"

\* the status a score gives (part_000:444-452)
scoreStatus(score) ==
    IF score >= 90 THEN "valid"
    ELSE IF score >= 60 THEN "risky"
    ELSE IF score >= 30 THEN "unknown"
    ELSE "invalid"

\* the can_send the page derives from a result of the scoring variant
\* (Index.tsx:134-137)
derivedCanSend(r) ==
    IF r.status = "valid" \/ r.status = "risky" THEN "yes" ELSE "no"

\* the locals of the scoring verifyEmail before Promise.all resolved
NoChecks ==
    [domainExists |-> FALSE, mxRecords |-> << >>, hasSPF |-> FALSE,
     hasDMARC |-> FALSE]

\* the object the scoring verifyEmail starts from (part_000:378-389)
newScoringResult(email) ==
    [email |-> email, syntax_valid |-> FALSE, domain_exists |-> FALSE,
     mx_found |-> FALSE, dmarc_valid |-> FALSE, disposable |-> FALSE,
     role_account |-> FALSE, catch_all |-> FALSE, smtp_score |-> 0,
     status |-> "unknown", error_message |-> Undefined]

\* the scoring verifyEmail from its call to its first await: the syntax
\* check and the auto-fail test, each of which returns at once, else the
\* four fetches Promise.all starts (part_000:377-422)
ScoringVerifyEmailCall(t) ==
    /\ scoringPc[t] = "start"
    /\ LET email  == emails[t]
           r      == [newScoringResult(email) EXCEPT
                          !.syntax_valid = validateEmailSyntax(email)]
           flagged == [r EXCEPT
                          !.disposable = isDisposableEmail(extractDomain(email)),
                          !.role_account = isRoleBasedEmail(email)]
       IN  IF ~r.syntax_valid
           THEN /\ scoringResult' =
                       [scoringResult EXCEPT ![t] =
                            [r EXCEPT !.error_message = MsgInvalidSyntax,
                                      !.status = "invalid"]]
                /\ scoringPc' = [scoringPc EXCEPT ![t] = "done"]
                /\ UNCHANGED scoringFetches
           ELSE IF isSpamTrap(email) \/ isAbuseEmail(email) \/ isToxicEmail(email)
           THEN /\ scoringResult' =
                       [scoringResult EXCEPT ![t] =
                            [flagged EXCEPT !.status = "invalid",
                                            !.error_message = MsgKnownBad]]
                /\ scoringPc' = [scoringPc EXCEPT ![t] = "done"]
                /\ UNCHANGED scoringFetches
           ELSE /\ scoringResult' = [scoringResult EXCEPT ![t] = flagged]
                /\ scoringPc' = [scoringPc EXCEPT ![t] = "dns"]
                /\ scoringFetches' = [scoringFetches EXCEPT ![t] = @ + 4]
    /\ UNCHANGED << scoringChecks, limiterVars, probeVars, batchVars, processVars >>

\* the four lookups settled: the catch-all heuristic, the score and the
\* status (part_000:417-454)
ScoringDnsSettles(t) ==
    /\ scoringPc[t] = "dns"
    /\ \E aResponse \in AResponses, mxResponse \in ScoringMxResponses,
          spfResponse \in TxtResponses, dmarcResponse \in TxtResponses :
           LET domainExists == checkDomainExists(aResponse)
               records      == getMXRecords(mxResponse)
               hasSPF       == checkSPF(spfResponse)
               hasDMARC     == checkDMARC(dmarcResponse)
               r     == scoringResult[t]
               score == calculateSMTPScore(records, hasSPF, hasDMARC,
                                           domainExists, r.disposable,
                                           r.role_account,
                                           isCatchAllDomain(records))
           IN  /\ scoringChecks' =
                       [scoringChecks EXCEPT ![t] =
                            [domainExists |-> domainExists, mxRecords |-> records,
                             hasSPF |-> hasSPF, hasDMARC |-> hasDMARC]]
               /\ scoringResult' =
                   [scoringResult EXCEPT ![t] =
                        [r EXCEPT !.domain_exists = domainExists,
                                  !.mx_found = Len(records) > 0,
                                  !.dmarc_valid = hasDMARC,
                                  !.catch_all = isCatchAllDomain(records),
                                  !.smtp_score = score,
                                  !.status = scoreStatus(score)]]
    /\ scoringPc' = [scoringPc EXCEPT ![t] = "done"]
    /\ UNCHANGED << scoringFetches, limiterVars, probeVars, batchVars, processVars >>

\* no verifyEmail of the scoring variant was called
ScoringIdle ==
    /\ scoringPc = [t \in Tasks |-> "idle"]
    /\ scoringChecks = << >>
    /\ scoringResult = << >>
    /\ scoringFetches = << >>

Next ==
    \/ \E t \in Tasks : VerifyEmailCall(t)
    \/ \E t \in Tasks : DnsSettles(t)
    \/ \E t \in Tasks : AcquireReturns(t)
    \/ \E t \in Tasks : ProbeSettles(t)
    \/ BatchSettles
    \/ \E t \in Tasks : ScoringVerifyEmailCall(t)
    \/ \E t \in Tasks : ScoringDnsSettles(t)


(***************************************************************************)
(* SpecDns: one DNS lookup of either variant, for every response the       *)
(* resolver can give (index.ts:55-103, part_000:61-162).                   *)
(***************************************************************************)
\* the data of an MX answer whose priority is not a number
MxDataNaN == <<"x", " ", "m", "x", "3", ".", "i", "o", ".">>

\* the data a record of an answer can carry
DnsData == { MxData10, MxData20, MxDataMalformed, MxDataNaN, TxtDmarc, TxtOther }

\* the answers of at most two records
DnsAnswers ==
    { << >> } \cup { << a >> : a \in DnsData }
        \cup { << a, b >> : a \in DnsData, b \in DnsData }

\* the Status values of a response: NOERROR, SERVFAIL and NXDOMAIN
DnsStatuses == { 0, 2, 3 }

\* the resolver never responds
DnsSilent == [kind |-> "silent", Status |-> 0, hasAnswer |-> FALSE, Answer |-> << >>]

\* what the resolver can answer: the fetch or the decoding of its body
\* throws (a network failure, a body that is no JSON object), a JSON
\* body, or nothing ever
DnsResponses ==
    { DnsThrows, DnsSilent }
        \cup { dnsNoAnswer(status) : status \in DnsStatuses }
        \cup { dnsJson(status, answer) : status \in DnsStatuses, answer \in DnsAnswers }

\* the lookup functions: getMXRecords, checkDMARC, checkSPF and
\* checkDomainExists
DnsQueries == { "MX", "DMARC", "SPF", "A" }

\* the lookup functions a variant has
lookupsOf(variant) ==
    IF variant = "probing" THEN { "MX", "DMARC" } ELSE DnsQueries

\* await fetch(...) settles: the resolver responded, or the timer of the
\* scoring variant aborted the request after DNS_TIMEOUT_MS
\* (part_000:63-69); the probing variant passes no signal and sets no
\* timer (index.ts:57, 84)
fetchSettles(lookup) ==
    lookup.response.kind # "silent" \/ lookup.variant = "scoring"

\* what the settled fetch gives the lookup: an aborted fetch throws
fetched(lookup) ==
    IF lookup.response.kind = "silent" THEN DnsThrows ELSE lookup.response

\* what each lookup function returns for each thing its fetch gives it
lookupReturns ==
    [response \in DnsResponses \ { DnsSilent } |->
        [MX    |-> getMXRecords(response),
         DMARC |-> checkDMARC(response),
         SPF   |-> checkSPF(response),
         A     |-> checkDomainExists(response)]]

\* getMXRecords(domain) returns
GetMXRecordsReturns ==
    /\ dnsLookup.query = "MX"
    /\ dnsLookup.phase = "pending"
    /\ fetchSettles(dnsLookup)
    /\ dnsLookup' = [dnsLookup EXCEPT !.phase = "returned",
                                      !.records = lookupReturns[fetched(dnsLookup)].MX]
    /\ UNCHANGED << limiterVars, probeVars, batchVars, scoringVars,
                    secondLimiter, primaryExchanger, handler, wire >>

\* checkDMARC(domain) returns
CheckDMARCReturns ==
    /\ dnsLookup.query = "DMARC"
    /\ dnsLookup.phase = "pending"
    /\ fetchSettles(dnsLookup)
    /\ dnsLookup' = [dnsLookup EXCEPT !.phase = "returned",
                                      !.found = lookupReturns[fetched(dnsLookup)].DMARC]
    /\ UNCHANGED << limiterVars, probeVars, batchVars, scoringVars,
                    secondLimiter, primaryExchanger, handler, wire >>

\* checkSPF(domain) returns
CheckSPFReturns ==
    /\ dnsLookup.query = "SPF"
    /\ dnsLookup.phase = "pending"
    /\ fetchSettles(dnsLookup)
    /\ dnsLookup' = [dnsLookup EXCEPT !.phase = "returned",
                                      !.found = lookupReturns[fetched(dnsLookup)].SPF]
    /\ UNCHANGED << limiterVars, probeVars, batchVars, scoringVars,
                    secondLimiter, primaryExchanger, handler, wire >>

\* checkDomainExists(domain) returns
CheckDomainExistsReturns ==
    /\ dnsLookup.query = "A"
    /\ dnsLookup.phase = "pending"
    /\ fetchSettles(dnsLookup)
    /\ dnsLookup' = [dnsLookup EXCEPT !.phase = "returned",
                                      !.found = lookupReturns[fetched(dnsLookup)].A]
    /\ UNCHANGED << limiterVars, probeVars, batchVars, scoringVars,
                    secondLimiter, primaryExchanger, handler, wire >>

DnsNext ==
    \/ GetMXRecordsReturns
    \/ CheckDMARCReturns
    \/ CheckSPFReturns
    \/ CheckDomainExistsReturns


(***************************************************************************)
(* SpecRequests: two requests served by the process at the same time.      *)
(* Each request makes its own limiter (index.ts:584): domainQueues and     *)
(* globalActive are the first request's, secondLimiter is the second's.    *)
(* A verifyEmail call holds its slot from the return of acquire to the     *)
(* release in the finally block, that is while its probe is in flight      *)
(* against the primary exchanger of its domain (index.ts:509-527).         *)
(***************************************************************************)
\* the hosts the resolver names as primary exchangers
Exchangers == { parseMxRecord(MxData10).exchange, parseMxRecord(MxData20).exchange }

\* the condition of acquire's polling loop, on the second request's limiter
secondMustWait(domain) ==
    \/ secondLimiter.globalActive >= MAX_WORKERS
    \/ secondLimiter.domainQueues[domain] >= MAX_CONCURRENT_PER_DOMAIN

\* a verifyEmail of the second request returns from acquire(domain)
SecondAcquire(domain) ==
    /\ ~secondMustWait(domain)
    /\ secondLimiter' = [secondLimiter EXCEPT !.domainQueues[domain] = @ + 1,
                                              !.globalActive = @ + 1]
    /\ UNCHANGED << limiterVars, probeVars, batchVars, scoringVars,
                    primaryExchanger, dnsLookup, handler, wire >>

\* a verifyEmail of the second request that holds a slot calls
\* release(domain)
SecondRelease(domain) ==
    /\ secondLimiter.domainQueues[domain] > 0
    /\ secondLimiter' = [secondLimiter EXCEPT !.domainQueues[domain] = @ - 1,
                                              !.globalActive = @ - 1]
    /\ UNCHANGED << limiterVars, probeVars, batchVars, scoringVars,
                    primaryExchanger, dnsLookup, handler, wire >>

\* a verifyEmail of the first request that holds a slot calls
\* release(domain)
FirstRelease(domain) ==
    /\ domainQueues[domain] > 0
    /\ LimiterRelease(domain)

RequestsNext ==
    \/ \E domain \in LimiterDomains : LimiterAcquire(domain)
    \/ \E domain \in LimiterDomains : FirstRelease(domain)
    \/ \E domain \in LimiterDomains : SecondAcquire(domain)
    \/ \E domain \in LimiterDomains : SecondRelease(domain)

(***************************************************************************)
(* SpecServe: one POST request through the handler passed to serve(), in   *)
(* either variant.  The handler record holds the request body, what the    *)
(* sheet export answers, the emails array's length, the loop offsets, the  *)
(* number of verifyEmail calls started and the response.  What one         *)
(* verifyEmail call does is the subject of Spec; here a call is started    *)
(* with its group and returns in a step of its own.                        *)
(***************************************************************************)
\* SMTP_CONFIG.BATCH_SIZE of the probing variant
BATCH_SIZE == 50
\* the bound of the row loop of the probing variant's fetchGoogleSheetAsCSV
SheetRowLimit == 5001
\* CONFIG of the scoring variant
SCORING_BATCH_SIZE == 25
MAX_EMAILS == 1000
MAX_CONCURRENT == 10

\* how far the inputs the model offers go beyond a limit
ExtraRows == 1

minimum(a, b) == IF a < b THEN a ELSE b

\* the rows a sheet may be read up to: i < 5001 (index.ts:256) and
\* i < CONFIG.MAX_EMAILS + 1 (part_000:342), the header row skipped
sheetRowBound(variant) ==
    IF variant = "probing" THEN SheetRowLimit - 1 ELSE MAX_EMAILS

\* the numbers of data rows of the sheets the model offers
SheetRowCounts(variant) ==
    { 0, 1, sheetRowBound(variant), sheetRowBound(variant) + ExtraRows }

\* what the export URL answers: the fetch throws, or a response whose
\* text has a header line and rows data lines, all of one kind: an
\* address, a text without @, or blank.  A response that is not ok (the
\* sheet is private or missing) carries a page of text.
SheetAnswers(variant) ==
    { [fetch |-> "throws", rows |-> 0, rowKind |-> "blank"],
      [fetch |-> "notOk", rows |-> 1, rowKind |-> "text"] }
    \cup { [fetch |-> "ok", rows |-> n, rowKind |-> k] :
              n \in SheetRowCounts(variant), k \in { "address", "text", "blank" } }

\* the request bodies the model offers: one that does not parse, and the
\* objects with or without a sheetsUrl (one with a sheet id in it or not)
\* and with or without emails (an array of some length, or a string)
RequestBodies ==
    { [json |-> "throws", sheetsUrl |-> "absent", provided |-> "absent",
       providedCount |-> 0] }
    \cup { [json |-> "ok", sheetsUrl |-> u, provided |-> p, providedCount |-> 0] :
              u \in { "absent", "invalid", "valid" }, p \in { "absent", "notArray" } }
    \cup { [json |-> "ok", sheetsUrl |-> u, provided |-> "array", providedCount |-> n] :
              u \in { "absent", "invalid", "valid" },
              n \in { 0, 1, MAX_EMAILS, MAX_EMAILS + ExtraRows } }

\* fetchGoogleSheetAsCSV throws: no sheet id in the URL, or the fetch throws
sheetFetchThrows(body, sheet) ==
    body.sheetsUrl = "invalid" \/ sheet.fetch = "throws"

\* the length of the array fetchGoogleSheetAsCSV returns: the non-blank
\* rows up to the bound, in the scoring variant those with an @ only
fetchGoogleSheetAsCSV(variant, sheet) ==
    IF sheet.rowKind = "blank" THEN 0
    ELSE IF sheet.rowKind = "text" /\ variant = "scoring" THEN 0
    ELSE minimum(sheet.rows, sheetRowBound(variant))

\* the response of the catch block
respondError(h) ==
    [h EXCEPT !.phase = "responded", !.status = 400, !.hasError = TRUE]

\* serve from req.json() to its first await or throw: the body does not
\* parse or names no input (400), the emails array of the scoring variant
\* is taken as it is, or the sheet is asked for
ServeReadsBody ==
    /\ handler.phase = "received"
    /\ LET body == handler.body
           takesArray == handler.variant = "scoring" /\ body.provided = "array"
       IN  handler' =
               IF body.json = "throws" THEN respondError(handler)
               ELSE IF takesArray
               THEN [handler EXCEPT !.phase = "loop",
                                    !.emailCount = body.providedCount]
               ELSE IF body.sheetsUrl = "absent" THEN respondError(handler)
               ELSE [handler EXCEPT !.phase = "fetching"]
    /\ UNCHANGED << limiterVars, probeVars, batchVars, scoringVars,
                    secondLimiter, primaryExchanger, dnsLookup, wire >>

\* fetchGoogleSheetAsCSV settled: its throw or an empty array ends in the
\* catch block, else the array, cut to MAX_EMAILS in the scoring variant,
\* goes to the loop
ServeSheetFetched ==
    /\ handler.phase = "fetching"
    /\ LET count == fetchGoogleSheetAsCSV(handler.variant, handler.sheet)
       IN  handler' =
               IF sheetFetchThrows(handler.body, handler.sheet) \/ count = 0
               THEN respondError(handler)
               ELSE [handler EXCEPT
                        !.phase = "loop",
                        !.emailCount =
                            IF handler.variant = "scoring"
                            THEN minimum(count, MAX_EMAILS) ELSE count]
    /\ UNCHANGED << limiterVars, probeVars, batchVars, scoringVars,
                    secondLimiter, primaryExchanger, dnsLookup, wire >>

\* the length of the array handed to Promise.all: the next BATCH_SIZE
\* addresses in the probing variant (index.ts:587), the next
\* MAX_CONCURRENT addresses of the current batch of SCORING_BATCH_SIZE in
\* the scoring variant (part_000:504, 368)
groupSize(h) ==
    IF h.variant = "probing"
    THEN minimum(BATCH_SIZE, h.emailCount - h.i)
    ELSE minimum(MAX_CONCURRENT,
                 minimum(SCORING_BATCH_SIZE, h.emailCount - h.i) - h.j)

\* a promise that settles as soon as one call has returned
promiseRace(h) == h.inFlight < groupSize(h)

\* await Promise.all(...) resumes: every call has returned (verifyEmail
\* catches whatever it throws, so the promise never rejects)
promiseAll(h) == h.inFlight = 0

\* the loop test passes: the group is sliced off and verifyEmail is called
\* for each of its addresses; the handler awaits Promise.all
ServeGroupStarts ==
    /\ handler.phase = "loop"
    /\ handler.i < handler.emailCount
    /\ handler' = [handler EXCEPT !.phase = "awaiting",
                                  !.verified = @ + groupSize(handler),
                                  !.inFlight = groupSize(handler)]
    /\ UNCHANGED << limiterVars, probeVars, batchVars, scoringVars,
                    secondLimiter, primaryExchanger, dnsLookup, wire >>

\* one verifyEmail call of the group returns
ServeVerifyReturns ==
    /\ handler.phase = "awaiting"
    /\ handler.inFlight > 0
    /\ handler' = [handler EXCEPT !.inFlight = @ - 1]
    /\ UNCHANGED << limiterVars, probeVars, batchVars, scoringVars,
                    secondLimiter, primaryExchanger, dnsLookup, wire >>

\* Promise.all resolved: the results are pushed and the loops step on;
\* the probing variant then sleeps 100 ms unless this was the last group
ServeGroupSettles ==
    /\ handler.phase = "awaiting"
    /\ promiseAll(handler)
    /\ IF handler.variant = "probing"
       THEN handler' =
                [handler EXCEPT
                    !.phase = IF handler.i + BATCH_SIZE < handler.emailCount
                              THEN "delay" ELSE "loop",
                    !.i = @ + BATCH_SIZE]
       ELSE LET batchLength == minimum(SCORING_BATCH_SIZE,
                                       handler.emailCount - handler.i)
                batchDone == handler.j + MAX_CONCURRENT >= batchLength
            IN  handler' =
                    [handler EXCEPT
                        !.phase = "loop",
                        !.j = IF batchDone THEN 0 ELSE @ + MAX_CONCURRENT,
                        !.i = IF batchDone THEN @ + SCORING_BATCH_SIZE ELSE @]
    /\ UNCHANGED << limiterVars, probeVars, batchVars, scoringVars,
                    secondLimiter, primaryExchanger, dnsLookup, wire >>

\* the delay between two groups of the probing variant is over
ServeDelayOver ==
    /\ handler.phase = "delay"
    /\ handler' = [handler EXCEPT !.phase = "loop"]
    /\ UNCHANGED << limiterVars, probeVars, batchVars, scoringVars,
                    secondLimiter, primaryExchanger, dnsLookup, wire >>

\* the loop is over: the results go out with status 200
ServeResponds ==
    /\ handler.phase = "loop"
    /\ handler.i >= handler.emailCount
    /\ handler' = [handler EXCEPT !.phase = "responded", !.status = 200,
                                  !.resultCount = handler.verified]
    /\ UNCHANGED << limiterVars, probeVars, batchVars, scoringVars,
                    secondLimiter, primaryExchanger, dnsLookup, wire >>

ServeNext ==
    \/ ServeReadsBody
    \/ ServeSheetFetched
    \/ ServeGroupStarts
    \/ ServeVerifyReturns
    \/ ServeGroupSettles
    \/ ServeDelayOver
    \/ ServeResponds

(***************************************************************************)
(* SpecWire: the dialogue of one performSMTPCheck call whose retry budget  *)
(* is spent (retryCount = MAX_RETRIES) with a server that answers every    *)
(* command, at the level of the chunks reader.read() delivers.  The        *)
(* server's reply to a command is queued when the command is written; the  *)
(* reply to EHLO may arrive cut into two chunks.  SpecProbe takes the      *)
(* text each readSMTPResponse returns as given; here it is computed from   *)
(* the chunks that are waiting.                                            *)
(***************************************************************************)
CRLF == << "\r", "\n" >>

\* the bytes of a reply as reader.read() delivers them: whole, or cut
\* after the first cut bytes
chunksOf(text, cut) ==
    IF cut = 0 \/ cut >= Len(text) THEN << text >>
    ELSE << SubSeq(text, 1, cut), SubSeq(text, cut + 1, Len(text)) >>

\* the loop of readSMTPResponse (index.ts:281-293) over the chunks that
\* are waiting: chunks are taken until the text decoded so far holds a
\* CRLF; what it returns and what it leaves.  With no CRLF and no chunk
\* left the loop waits and the timer of index.ts:277-279 rejects.
RECURSIVE readSMTPResponse(_, _)
readSMTPResponse(response, waiting) ==
    IF includes(response, CRLF)
    THEN [kind |-> "data", text |-> response, rest |-> waiting]
    ELSE IF waiting = << >>
    THEN [kind |-> "timeout", text |-> << >>, rest |-> << >>]
    ELSE readSMTPResponse(response \o Head(waiting), Tail(waiting))

\* the return statement of the catch block after a read timeout
wireTimedOut ==
    [wire EXCEPT !.pc = "returned",
                 !.details = errorDetails(ProbeMx, SMTPReadTimeout)]

\* await writeSMTPCommand(writer, command): the command goes out and the
\* server queues its reply to it
wireWrite(at, next, command, reply) ==
    /\ wire.pc = at
    /\ wire' = [wire EXCEPT !.pc = next,
                            !.commands = Append(@, command),
                            !.waiting = @ \o reply]
    /\ UNCHANGED << limiterVars, probeVars, batchVars, scoringVars,
                    secondLimiter, primaryExchanger, dnsLookup, handler >>

\* Deno.connect resolved: the server queues its greeting
WireConnect ==
    /\ wire.pc = "connect"
    /\ wire' = [wire EXCEPT !.pc = "greeting",
                            !.waiting = << wire.script.greeting >>]
    /\ UNCHANGED << limiterVars, probeVars, batchVars, scoringVars,
                    secondLimiter, primaryExchanger, dnsLookup, handler >>

\* the greeting is read (index.ts:327-339)
WireReadGreeting ==
    /\ wire.pc = "greeting"
    /\ LET read == readSMTPResponse(<< >>, wire.waiting)
       IN  wire' =
               IF read.kind # "data" THEN wireTimedOut
               ELSE IF greetingRefused(replyCode(read.text))
               THEN [wire EXCEPT !.pc = "returned", !.waiting = read.rest,
                                 !.details = abortDetails(ProbeMx, read.text, FALSE)]
               ELSE [wire EXCEPT !.pc = "write_ehlo", !.waiting = read.rest]
    /\ UNCHANGED << limiterVars, probeVars, batchVars, scoringVars,
                    secondLimiter, primaryExchanger, dnsLookup, handler >>

\* EHLO is written (index.ts:342)
WireWriteEhlo ==
    wireWrite("write_ehlo", "read_ehlo", "EHLO",
              chunksOf(wire.script.ehlo, wire.script.cut))

\* the EHLO response is read and searched for STARTTLS (index.ts:343-350)
WireReadEhlo ==
    /\ wire.pc = "read_ehlo"
    /\ LET read == readSMTPResponse(<< >>, wire.waiting)
       IN  wire' =
               IF read.kind # "data" THEN wireTimedOut
               ELSE [wire EXCEPT !.pc = "write_mail", !.waiting = read.rest,
                                 !.ehloResponse = read.text,
                                 !.tlsEnabled = includes(read.text, StartTlsWord)]
    /\ UNCHANGED << limiterVars, probeVars, batchVars, scoringVars,
                    secondLimiter, primaryExchanger, dnsLookup, handler >>

\* MAIL FROM is written (index.ts:353)
WireWriteMail ==
    wireWrite("write_mail", "read_mail", "MAIL FROM", << wire.script.mail >>)

\* the MAIL FROM response is read (index.ts:354-366)
WireReadMail ==
    /\ wire.pc = "read_mail"
    /\ LET read == readSMTPResponse(<< >>, wire.waiting)
       IN  wire' =
               IF read.kind # "data" THEN wireTimedOut
               ELSE IF mailFromRefused(replyCode(read.text))
               THEN [wire EXCEPT !.pc = "returned", !.waiting = read.rest,
                                 !.mailFromResponse = read.text,
                                 !.details = abortDetails(ProbeMx, read.text,
                                                          wire.tlsEnabled)]
               ELSE [wire EXCEPT !.pc = "write_rcpt", !.waiting = read.rest,
                                 !.mailFromResponse = read.text]
    /\ UNCHANGED << limiterVars, probeVars, batchVars, scoringVars,
                    secondLimiter, primaryExchanger, dnsLookup, handler >>

\* RCPT TO is written (index.ts:369)
WireWriteRcpt ==
    wireWrite("write_rcpt", "read_rcpt", "RCPT TO", << wire.script.rcpt >>)

\* the RCPT TO response is read (index.ts:370-371)
WireReadRcpt ==
    /\ wire.pc = "read_rcpt"
    /\ LET read == readSMTPResponse(<< >>, wire.waiting)
       IN  wire' =
               IF read.kind # "data" THEN wireTimedOut
               ELSE [wire EXCEPT !.pc = "write_quit", !.waiting = read.rest,
                                 !.rcptResponse = read.text]
    /\ UNCHANGED << limiterVars, probeVars, batchVars, scoringVars,
                    secondLimiter, primaryExchanger, dnsLookup, handler >>

\* QUIT is written (index.ts:374)
WireWriteQuit ==
    wireWrite("write_quit", "read_quit", "QUIT", << Quit221 >>)

\* the QUIT response is awaited, its text and its failure dropped, and
\* the result is built from rcptResponse (index.ts:375-401)
WireReadQuit ==
    /\ wire.pc = "read_quit"
    /\ LET read == readSMTPResponse(<< >>, wire.waiting)
       IN  wire' = [wire EXCEPT
                       !.pc = "returned", !.waiting = read.rest,
                       !.details = rcptDetails(ProbeMx, wire.rcptResponse,
                                               wire.tlsEnabled)]
    /\ UNCHANGED << limiterVars, probeVars, batchVars, scoringVars,
                    secondLimiter, primaryExchanger, dnsLookup, handler >>

\* what the server answers to the commands, and where its EHLO reply is cut
WireScripts ==
    { [greeting |-> g, ehlo |-> e, cut |-> c, mail |-> m, rcpt |-> r] :
          g \in { Greeting220, Greeting554 }, e \in EhloReplies,
          c \in 0..MaxCut, m \in MailReplies,
          r \in { Rcpt250, Rcpt550, Rcpt450AcceptAll } }

WireNext ==
    \/ WireConnect
    \/ WireReadGreeting
    \/ WireWriteEhlo
    \/ WireReadEhlo
    \/ WireWriteMail
    \/ WireReadMail
    \/ WireWriteRcpt
    \/ WireReadRcpt
    \/ WireWriteQuit
    \/ WireReadQuit

(***************************************************************************)
(* SpecGate: the verifyEmail calls of one group of the probing variant     *)
(* from limiter.acquire to the release of the finally block                *)
(* (index.ts:512-527), with more calls for one domain than                 *)
(* MAX_CONCURRENT_PER_DOMAIN.  What the probe returns and what verifyEmail *)
(* makes of it is the subject of Spec; here a call is followed through     *)
(* the limiter only: the test of acquire's loop, its sleep of 100 ms, the  *)
(* increments, the probe and the release.                                  *)
(***************************************************************************)
GateCallers == 1..GateSize

\* the group: addresses of one domain, and one of another domain
gateBatch ==
    [c \in GateCallers |-> IF c = GateSize THEN EmailSpamTrap ELSE EmailPlain]

\* const domain = extractDomain(email) of each call (index.ts:485)
gateDomains == [c \in GateCallers |-> extractDomain(gateBatch[c])]

\* the loop condition of acquire holds: the caller awaits the timer
\* (index.ts:436-441)
GateSleeps(c) ==
    /\ verifyPc[c] = "acquire"
    /\ acquireMustWait(gateDomains[c])
    /\ verifyPc' = [verifyPc EXCEPT ![c] = "sleep"]
    /\ calls' = [calls EXCEPT ![c].slept = TRUE]
    /\ UNCHANGED << emails, result, mxRecords, results, limiterVars, probeVars,
                    scoringVars, processVars >>

\* the timer fired: the loop condition is tested again
GateWakes(c) ==
    /\ verifyPc[c] = "sleep"
    /\ verifyPc' = [verifyPc EXCEPT ![c] = "acquire"]
    /\ UNCHANGED << emails, result, mxRecords, calls, results, limiterVars,
                    probeVars, scoringVars, processVars >>

\* the loop condition fails: the increments, the return of acquire and
\* the call of performSMTPCheck (index.ts:443-444, 516)
GateAcquireReturns(c) ==
    /\ verifyPc[c] = "acquire"
    /\ acquire(gateDomains[c])
    /\ calls' = [calls EXCEPT ![c].acquire = @ + 1, ![c].probe = @ + 1]
    /\ verifyPc' = [verifyPc EXCEPT ![c] = "probe"]
    /\ UNCHANGED << emails, result, mxRecords, results, otherActive, probeVars,
                    scoringVars, processVars >>

\* the probe resolved: the finally block releases and verifyEmail goes on
\* to its return (index.ts:516-552)
GateProbeSettles(c) ==
    /\ verifyPc[c] = "probe"
    /\ release(gateDomains[c])
    /\ calls' = [calls EXCEPT ![c].release = @ + 1]
    /\ verifyPc' = [verifyPc EXCEPT ![c] = "done"]
    /\ UNCHANGED << emails, result, mxRecords, results, otherActive, probeVars,
                    scoringVars, processVars >>

\* the next step of one call
GateStep(c) ==
    \/ GateSleeps(c)
    \/ GateWakes(c)
    \/ GateAcquireReturns(c)
    \/ GateProbeSettles(c)

GateNext == \E c \in GateCallers : GateStep(c)

(***************************************************************************)
(* The specifications.                                                     *)
(***************************************************************************)
\* no second request, no lookup and no handler under consideration
ProcessIdle ==
    /\ secondLimiter = [domainQueues |-> [d \in Domains |-> 0], globalActive |-> 0]
    /\ primaryExchanger = << >>
    /\ dnsLookup = [query |-> "none"]
    /\ handler = [phase |-> "idle"]
    /\ wire = [pc |-> "idle"]

\* new DomainConcurrencyLimiter() (index.ts:431-433)
LimiterFresh ==
    /\ domainQueues = [d \in Domains |-> 0]
    /\ globalActive = 0
    /\ otherActive = 0

\* a request with a batch of addresses arrived at the deployed variant of
\* the function.  index.ts: a fresh limiter, and verifyEmail about to be
\* called for each address (index.ts:584-590).  part_000: its verifyEmail
\* about to be called for each address (part_000:501-510, 360-370).
Init ==
    /\ LimiterFresh
    /\ ProbeInit
    /\ emails \in Batches
    /\ \/ /\ verifyPc = [t \in Tasks |-> "start"]
          /\ result = [t \in Tasks |-> newResult(emails[t])]
          /\ mxRecords = [t \in Tasks |-> << >>]
          /\ calls = [t \in Tasks |-> NoCalls]
          /\ results = << >>
          /\ ScoringIdle
       \/ /\ BatchIdle
          /\ scoringPc = [t \in Tasks |-> "start"]
          /\ scoringResult = [t \in Tasks |-> newScoringResult(emails[t])]
          /\ scoringFetches = [t \in Tasks |-> 0]
          /\ scoringChecks = [t \in Tasks |-> NoChecks]
    /\ ProcessIdle

\* a group whose calls have their MX records and are about to call
\* acquire on the request's fresh limiter (index.ts:584, 509-512)
InitGate ==
    /\ LimiterFresh
    /\ ProbeInit
    /\ emails = gateBatch
    /\ verifyPc = [c \in GateCallers |-> "acquire"]
    /\ result = << >>
    /\ mxRecords = << >>
    /\ calls = [c \in GateCallers |->
                   [fetch |-> 2, acquire |-> 0, release |-> 0, probe |-> 0,
                    slept |-> FALSE]]
    /\ results = << >>
    /\ ScoringIdle
    /\ ProcessIdle

\* a limiter alone, with no request
InitLimiter ==
    /\ LimiterFresh
    /\ ProbeInit
    /\ emails = << >>
    /\ BatchIdle
    /\ ScoringIdle
    /\ ProcessIdle

\* a probe alone, with no request
InitProbe ==
    /\ LimiterFresh
    /\ ProbeInit
    /\ emails = << >>
    /\ BatchIdle
    /\ ScoringIdle
    /\ ProcessIdle

\* a lookup function was called and the resolver's response is on its way
InitDns ==
    /\ LimiterFresh
    /\ ProbeInit
    /\ emails = << >>
    /\ BatchIdle
    /\ ScoringIdle
    /\ secondLimiter = [domainQueues |-> [d \in Domains |-> 0], globalActive |-> 0]
    /\ primaryExchanger = << >>
    /\ handler = [phase |-> "idle"]
    /\ wire = [pc |-> "idle"]
    /\ \E variant \in { "probing", "scoring" } :
           \E query \in lookupsOf(variant), response \in DnsResponses :
               dnsLookup = [variant |-> variant, query |-> query,
                            response |-> response, phase |-> "pending",
                            records |-> << >>, found |-> FALSE]

\* two requests arrived, each with a fresh limiter; the resolver names a
\* primary exchanger for every domain
InitRequests ==
    /\ LimiterFresh
    /\ ProbeInit
    /\ emails = << >>
    /\ BatchIdle
    /\ ScoringIdle
    /\ secondLimiter = [domainQueues |-> [d \in Domains |-> 0], globalActive |-> 0]
    /\ primaryExchanger \in [LimiterDomains -> Exchangers]
    /\ dnsLookup = [query |-> "none"]
    /\ handler = [phase |-> "idle"]
    /\ wire = [pc |-> "idle"]

\* a POST request arrived at one of the variants
InitServe ==
    /\ LimiterFresh
    /\ ProbeInit
    /\ emails = << >>
    /\ BatchIdle
    /\ ScoringIdle
    /\ secondLimiter = [domainQueues |-> [d \in Domains |-> 0], globalActive |-> 0]
    /\ primaryExchanger = << >>
    /\ dnsLookup = [query |-> "none"]
    /\ wire = [pc |-> "idle"]
    /\ \E variant \in { "probing", "scoring" } :
           \E body \in RequestBodies, sheet \in SheetAnswers(variant) :
               handler = [phase |-> "received", variant |-> variant,
                          body |-> body, sheet |-> sheet, emailCount |-> 0,
                          i |-> 0, j |-> 0, verified |-> 0, inFlight |-> 0,
                          status |-> 0,
                          hasError |-> FALSE, resultCount |-> 0]

\* Deno.connect was called by the innermost performSMTPCheck, for a
\* server with some script
InitWire ==
    /\ LimiterFresh
    /\ ProbeInit
    /\ emails = << >>
    /\ BatchIdle
    /\ ScoringIdle
    /\ secondLimiter = [domainQueues |-> [d \in Domains |-> 0], globalActive |-> 0]
    /\ primaryExchanger = << >>
    /\ dnsLookup = [query |-> "none"]
    /\ handler = [phase |-> "idle"]
    /\ \E script \in WireScripts :
           wire = [pc |-> "connect", script |-> script, waiting |-> << >>,
                   commands |-> << >>, ehloResponse |-> << >>,
                   mailFromResponse |-> << >>, rcptResponse |-> << >>,
                   tlsEnabled |-> FALSE, details |-> NoDetails]

Spec == Init /\ [][Next]_vars

SpecWire == InitWire /\ [][WireNext]_vars

\* a lookup whose fetch settles goes on; nothing makes a fetch settle
SpecDnsFair == InitDns /\ [][DnsNext]_vars /\ WF_vars(DnsNext)

\* every await of performSMTPCheck settles: Deno.connect and each read
\* race a timer, the sleeps are timers, and a write resolves or rejects
SpecProbeFair == InitProbe /\ [][ProbeNext]_vars /\ WF_vars(ProbeNext)

\* no call stands still for ever: every timer of acquire's loop fires,
\* the test that follows it is made, and every probe returns
SpecGateFair ==
    /\ InitGate
    /\ [][GateNext]_vars
    /\ \A c \in GateCallers : WF_vars(GateStep(c))

SpecGate == InitGate /\ [][GateNext]_vars

SpecServe == InitServe /\ [][ServeNext]_vars

SpecRequests == InitRequests /\ [][RequestsNext]_vars

SpecDns == InitDns /\ [][DnsNext]_vars

SpecLimiter == InitLimiter /\ [][LimiterNext]_vars

SpecProbe == InitProbe /\ [][ProbeNext]_vars


----------------------------------------------------------------------------
(***************************************************************************)
(* Claims.                                                                 *)
(***************************************************************************)

\* C1: under every interleaving of acquire and release calls on one limiter,
\* no domain's in-flight count exceeds MAX_CONCURRENT_PER_DOMAIN and the global
\* in-flight count never exceeds MAX_WORKERS, and a step in which acquire
\* increments the counters starts with both counts below their caps.
C1_CapsNeverExceeded ==
    /\ [](/\ \A d \in Domains : domainQueues[d] <= MAX_CONCURRENT_PER_DOMAIN
          /\ globalActive <= MAX_WORKERS)
    /\ [][\A d \in Domains :
              domainQueues'[d] > domainQueues[d] =>
                  /\ domainQueues[d] < MAX_CONCURRENT_PER_DOMAIN
                  /\ globalActive < MAX_WORKERS]_vars

\* C1 witness: one domain is at its cap while the global count is at its cap
\* too, and another domain is below its cap and still refused.
C1_Witness ==
    /\ globalActive = MAX_WORKERS
    /\ \E d, e \in LimiterDomains :
           /\ domainQueues[d] = MAX_CONCURRENT_PER_DOMAIN
           /\ domainQueues[e] < MAX_CONCURRENT_PER_DOMAIN
           /\ acquireMustWait(e)

\* C2: in verifyEmail every acquire that returned is followed by exactly one
\* release for the same domain whatever the probe resolved to: a verification
\* acquires at most once, holds its slot exactly while its probe is under
\* way, has released as often as it acquired once it returned, and never
\* releases without having acquired; the acquire and the release of a
\* verification move the counter of its own domain.
C2_AcquireReleasePaired ==
    /\ [](\A t \in Tasks :
              verifyPc[t] # "idle" =>
                  /\ calls[t].acquire <= 1
                  /\ calls[t].release <= calls[t].acquire
                  /\ verifyPc[t] = "done" => calls[t].release = calls[t].acquire
                  /\ calls[t].acquire > calls[t].release <=> verifyPc[t] = "probe")
    /\ [][\A t \in Tasks :
              verifyPc[t] # "idle" =>
                  LET domain == extractDomain(emails[t])
                  IN  /\ calls'[t].acquire > calls[t].acquire =>
                             /\ domainQueues'[domain] = domainQueues[domain] + 1
                             /\ globalActive' = globalActive + 1
                      /\ calls'[t].release > calls[t].release =>
                             /\ calls[t].acquire = calls[t].release + 1
                             /\ domainQueues'[domain] = domainQueues[domain] - 1
                             /\ globalActive' = globalActive - 1]_vars

\* C2 witness: a verification whose probe ended in the catch block has
\* returned with one acquire and one release, while another verification of
\* the same domain still holds the only slot taken.
C2_Witness ==
    \E t, u \in Tasks :
        /\ verifyPc[t] = "done"
        /\ calls[t].acquire = 1
        /\ calls[t].release = 1
        /\ result[t].smtp_details.code = 0
        /\ result[t].smtp_details.message = ConnectionTimeout
        /\ verifyPc[u] = "probe"
        /\ extractDomain(emails[u]) = extractDomain(emails[t])
        /\ domainQueues[extractDomain(emails[u])] = 1
        /\ globalActive = 1

\* the reply text contains "catch" or "accept all", in any case
mentionsCatchAll(response) ==
    \/ includes(toLowerCase(response), CatchWord)
    \/ includes(toLowerCase(response), AcceptAllWord)

\* C3: every TCP connection a probe attempt opened is closed once the attempt
\* is over: an open connection is the one the running attempt holds in conn,
\* and none is open after performSMTPCheck returned.
C3_EveryConnectionClosed ==
    \A i \in 1..Len(sockets) :
        sockets[i] = "open" => (i = conn /\ probePc # "returned")

\* C4 as stated: after RCPT TO, 250 and 251 give valid, 5xx gives invalid, 4xx
\* with no retry left gives temp_error, and every other code gives unknown.
C4_AsStated ==
    returnedFrom = "rcpt" =>
        LET code == probeResult.code
        IN  /\ code \in { 250, 251 } => probeResult.status = "valid"
            /\ code \in 500..599 => probeResult.status = "invalid"
            /\ code \in 400..499 =>
                   probeResult.status = "temp_error" /\ retryCount = MAX_RETRIES
            /\ code \notin ({ 250, 251 } \cup 400..599) =>
                   probeResult.status = "unknown"

\* C4 amended: as stated, except that a code outside 250, 251, 4xx and 5xx
\* gives catch_all when the reply text contains "catch" or "accept all", and
\* unknown otherwise.
C4_RcptClassification ==
    returnedFrom = "rcpt" =>
        LET code == probeResult.code
        IN  /\ probeResult.code = replyCode(rcptResponse)
            /\ code \in { 250, 251 } => probeResult.status = "valid"
            /\ code \in 500..599 => probeResult.status = "invalid"
            /\ code \in 400..499 =>
                   probeResult.status = "temp_error" /\ retryCount = MAX_RETRIES
            /\ code \notin ({ 250, 251 } \cup 400..599) =>
                   probeResult.status =
                       IF mentionsCatchAll(rcptResponse) THEN "catch_all"
                       ELSE "unknown"

\* C4 witness: a probe returned catch_all for a reply with another code.
C4_Witness ==
    /\ returnedFrom = "rcpt"
    /\ probeResult.code = 252
    /\ probeResult.status = "catch_all"

\* C5: a RCPT TO reply whose text contains "catch" or "accept all" is
\* classified catch_all whatever its code.
C5_CatchAllWhateverTheCode ==
    (returnedFrom = "rcpt" /\ mentionsCatchAll(rcptResponse)) =>
        probeResult.status = "catch_all"

\* C6: a probe whose every attempt read a 4xx RCPT TO reply returns after
\* exactly MAX_RETRIES + 1 attempts, with temp_error.
C6_RetriesThenTempError ==
    ( /\ probePc = "returned"
      /\ Len(rcptLog) = Len(sockets)
      /\ \A i \in 1..Len(rcptLog) : rcptLog[i] \in 400..499 ) =>
        /\ Len(sockets) = MAX_RETRIES + 1
        /\ probeResult.status = "temp_error"

\* the address of task t passes the syntax check and is classified as a
\* spam trap, an abuse address or a toxic address
autoFail(t) ==
    /\ validateEmailSyntax(emails[t])
    /\ \/ isSpamTrap(emails[t])
       \/ isAbuseEmail(emails[t])
       \/ isToxicEmail(emails[t])

\* C7: an address classified as spam trap, abuse or toxic gets a negative
\* verdict with no network call made for it: no DNS lookup, no limiter
\* acquire and no SMTP probe, in either variant.
C7_AutoFailWithoutNetwork ==
    \A t \in Tasks :
        autoFail(t) =>
            /\ verifyPc[t] # "idle" =>
                   /\ calls[t] = NoCalls
                   /\ verifyPc[t] = "done" => result[t].can_send = "no"
            /\ scoringPc[t] # "idle" =>
                   /\ scoringFetches[t] = 0
                   /\ scoringPc[t] = "done" => scoringResult[t].status = "invalid"

\* C8: when the MX resolution of an address yielded no record, verifyEmail
\* has returned with dns_valid = false, no smtp_details and can_send = "no",
\* and neither acquire nor performSMTPCheck was called for it.
C8_NoMxNoProbe ==
    \A t \in Tasks :
        ( /\ verifyPc[t] \in { "acquire", "probe", "done" }
          /\ result[t].syntax_valid
          /\ mxRecords[t] = << >> ) =>
            /\ verifyPc[t] = "done"
            /\ result[t].dns_valid = FALSE
            /\ result[t].smtp_details = NoDetails
            /\ result[t].can_send = "no"
            /\ calls[t].acquire = 0
            /\ calls[t].probe = 0

\* C8 witness: an address whose domain publishes a DMARC policy and no MX
\* record was returned as not deliverable, while another verification of
\* the batch is probing.
C8_Witness ==
    \E t, u \in Tasks :
        /\ verifyPc[t] = "done"
        /\ result[t].syntax_valid
        /\ mxRecords[t] = << >>
        /\ result[t].dmarc_valid
        /\ result[t].error_message = MsgNoMx
        /\ verifyPc[u] = "probe"

\* C9: an address of a disposable domain is returned with a negative verdict
\* and the disposable flag set, and no SMTP probe (in the scoring variant,
\* which has no probe: no lookup) is made for it.
C9_DisposableShortCircuits ==
    \A t \in Tasks :
        ( /\ validateEmailSyntax(emails[t])
          /\ isDisposableEmail(extractDomain(emails[t])) ) =>
            /\ verifyPc[t] # "idle" =>
                   /\ calls[t].probe = 0
                   /\ verifyPc[t] = "done" =>
                          /\ result[t].is_disposable
                          /\ result[t].can_send = "no"
            /\ scoringPc[t] # "idle" =>
                   /\ scoringFetches[t] = 0
                   /\ scoringPc[t] = "done" =>
                          /\ scoringResult[t].disposable
                          /\ scoringResult[t].status = "invalid"

\* the addresses of the model that are not well formed
BadSyntaxEmails == { EmailBadSyntax, EmailNoAt }

\* C10: for a syntactically invalid address no DNS lookup, limiter acquire
\* or SMTP probe is ever made, and the first step of verifyEmail returns
\* syntax_valid = false with a negative verdict (can_send "no" in index.ts,
\* status invalid in part_000).
C10_BadSyntaxNoNetwork ==
    \A t \in Tasks :
        emails[t] \in BadSyntaxEmails =>
            /\ verifyPc[t] # "idle" =>
                   /\ calls[t] = NoCalls
                   /\ verifyPc[t] \in { "start", "done" }
                   /\ verifyPc[t] = "done" =>
                          /\ result[t].syntax_valid = FALSE
                          /\ result[t].can_send = "no"
                          /\ result[t].smtp_details = NoDetails
                          /\ result[t].error_message = MsgInvalidSyntax
            /\ scoringPc[t] # "idle" =>
                   /\ scoringFetches[t] = 0
                   /\ scoringPc[t] \in { "start", "done" }
                   /\ scoringPc[t] = "done" =>
                          /\ scoringResult[t].syntax_valid = FALSE
                          /\ scoringResult[t].status = "invalid"
                          /\ scoringResult[t].error_message = MsgInvalidSyntax

\* C10 witness: an address with an empty domain label was returned as
\* invalid while the verification of another address of the batch is
\* probing.
C10_Witness ==
    \E t, u \in Tasks :
        /\ emails[t] = EmailBadSyntax
        /\ verifyPc[t] = "done"
        /\ result[t].syntax_valid = FALSE
        /\ calls[t] = NoCalls
        /\ verifyPc[u] = "probe"

\* C11: the results the batch driver returns are one per input address, each
\* carrying the address at the same position of the input, and a failure
\* met while verifying an address (no usable DNS answer, a probe that ended
\* in its catch block) is recorded in the error_message of that address's
\* result.
C11_OneResultPerAddress ==
    results # << >> =>
        /\ Len(results) = Len(emails)
        /\ \A t \in Tasks :
               /\ results[t].email = emails[t]
               /\ results[t] = result[t]
               /\ (results[t].syntax_valid /\ mxRecords[t] = << >>) =>
                      results[t].error_message = MsgNoMx
               /\ ( /\ results[t].smtp_details.status = "unknown"
                    /\ results[t].smtp_details.code = 0
                    /\ results[t].smtp_details.message # << >> ) =>
                      results[t].error_message = results[t].smtp_details.message

\* C11 witness: the driver returned a batch in which one address has no MX
\* record and another address, after it in the batch, can be sent to.
C11_Witness ==
    /\ results # << >>
    /\ \E t, u \in Tasks :
           /\ t < u
           /\ results[t].error_message = MsgNoMx
           /\ results[u].can_send = "yes"

\* C12: the first record of the list getMXRecords returns, whose exchange
\* verifyEmail passes to the probe, has a priority that is a number and is
\* the minimum of the priorities of all the records of the answer.
C12_PrimaryHasMinimumPriority ==
    ( /\ dnsLookup.query = "MX"
      /\ dnsLookup.phase = "returned"
      /\ dnsLookup.records # << >> ) =>
        /\ Len(dnsLookup.records) = Len(dnsLookup.response.Answer)
        /\ \A i \in 1..Len(dnsLookup.records) :
               /\ dnsLookup.records[1].priority # NaN
               /\ dnsLookup.records[i].priority # NaN
               /\ dnsLookup.records[1].priority <= dnsLookup.records[i].priority

\* the data of an MX record is "<digits> <exchange>"
wellFormedMxData(data) ==
    LET parts == split(data, " ")
    IN  /\ Len(parts) = 2
        /\ parts[1] # << >>
        /\ \A i \in 1..Len(parts[1]) : parts[1][i] \in Digits
        /\ parts[2] # << >>

\* C13: a result verifyEmail returned has can_send = "yes" exactly when
\* syntax_valid, dns_valid and smtp_valid are true and the address is
\* neither disposable nor a spam trap nor an abuse nor a toxic address.
C13_CanSendIffAllChecksPass ==
    \A t \in Tasks :
        verifyPc[t] = "done" =>
            ( result[t].can_send = "yes" <=>
                  /\ result[t].syntax_valid
                  /\ result[t].dns_valid
                  /\ result[t].smtp_valid
                  /\ ~result[t].is_disposable
                  /\ ~result[t].is_spam_trap
                  /\ ~result[t].is_abuse
                  /\ ~result[t].is_toxic )

\* C13 witness: of two addresses the probe accepted, the one that is toxic
\* was returned with can_send "no" and the other with "yes".
C13_Witness ==
    \E t, u \in Tasks :
        /\ verifyPc[t] = "done"
        /\ result[t].can_send = "yes"
        /\ verifyPc[u] = "done"
        /\ result[u].smtp_valid
        /\ result[u].is_toxic
        /\ result[u].can_send = "no"
        /\ result[u].error_message = MsgToxic

\* C14: over the requests the process is serving, the probes in flight for
\* one domain never exceed MAX_CONCURRENT_PER_DOMAIN and the probes in
\* flight in all never exceed MAX_WORKERS.
C14_CapsHoldAcrossRequests ==
    /\ \A d \in LimiterDomains :
           domainQueues[d] + secondLimiter.domainQueues[d]
               <= MAX_CONCURRENT_PER_DOMAIN
    /\ globalActive + secondLimiter.globalActive <= MAX_WORKERS

\* the probes of the first request in flight against the host: those of
\* the domains whose primary exchanger it is
RECURSIVE inFlightTo(_, _)
inFlightTo(host, domains) ==
    IF domains = { } THEN 0
    ELSE LET d == CHOOSE x \in domains : TRUE
         IN  (IF primaryExchanger[d] = host THEN domainQueues[d] ELSE 0)
                 + inFlightTo(host, domains \ { d })

\* C15: within one request, the probes in flight against one exchanger
\* host, each of which holds an SMTP session to it, never exceed
\* MAX_CONCURRENT_PER_DOMAIN, whichever domains the host serves.
C15_CapPerExchanger ==
    \A host \in Exchangers :
        inFlightTo(host, LimiterDomains) <= MAX_CONCURRENT_PER_DOMAIN

\* the scoring verifyEmail of task t returned after its lookups
reachedScoring(t) ==
    /\ scoringPc[t] = "done"
    /\ scoringFetches[t] > 0

\* the weights of the scoring variant as the specification lists them,
\* summed over what the call of task t established
weightSum(t) ==
    LET r       == scoringResult[t]
        c       == scoringChecks[t]
        primary == toLowerCase(c.mxRecords[1].exchange)
    IN  (IF r.domain_exists THEN 20 ELSE 0)
        + (IF r.mx_found THEN 30 ELSE 0)
        + (IF r.mx_found /\ \E p \in knownValidSuffixes : endsWith(primary, p)
           THEN 15 ELSE 0)
        - (IF r.mx_found /\ \E p \in suspiciousWords : includes(primary, p)
           THEN 30 ELSE 0)
        + (IF Len(c.mxRecords) > 1 THEN 5 ELSE 0)
        + (IF c.hasSPF THEN 10 ELSE 0)
        + (IF r.dmarc_valid THEN 10 ELSE 0)
        - (IF r.disposable THEN 40 ELSE 0)
        - (IF r.role_account THEN 10 ELSE 0)
        - (IF r.catch_all THEN 15 ELSE 0)

\* C16: the score of an address that reached scoring is the sum of the
\* listed weights brought into 0..100, and the smtp_score of every result
\* of the scoring variant is an integer between 0 and 100.
C16_ScoreIsClampedWeightSum ==
    \A t \in Tasks :
        /\ scoringPc[t] = "done" => scoringResult[t].smtp_score \in 0..100
        /\ reachedScoring(t) =>
               /\ weightSum(t) < 0 => scoringResult[t].smtp_score = 0
               /\ weightSum(t) > 100 => scoringResult[t].smtp_score = 100
               /\ weightSum(t) \in 0..100 =>
                      scoringResult[t].smtp_score = weightSum(t)

\* C16 witness: a disposable address whose domain resolves but has no MX
\* record was scored: its weights sum to less than zero and its score
\* is 0.
C16_Witness ==
    \E t \in Tasks :
        /\ reachedScoring(t)
        /\ scoringResult[t].disposable
        /\ scoringResult[t].domain_exists
        /\ ~scoringResult[t].mx_found
        /\ weightSum(t) < 0
        /\ scoringResult[t].smtp_score = 0

\* C17: for an address that reached scoring, status is valid from 90,
\* risky from 60 to 89, unknown from 30 to 59 and invalid below 30.
C17_StatusFollowsThresholds ==
    \A t \in Tasks :
        reachedScoring(t) =>
            LET score  == scoringResult[t].smtp_score
                status == scoringResult[t].status
            IN  /\ score >= 90 => status = "valid"
                /\ (60 <= score /\ score < 90) => status = "risky"
                /\ (30 <= score /\ score < 60) => status = "unknown"
                /\ score < 30 => status = "invalid"

\* C17 witness: an address was scored exactly 90 and returned as valid.
C17_Witness ==
    \E t \in Tasks :
        /\ reachedScoring(t)
        /\ scoringResult[t].smtp_score = 90
        /\ scoringResult[t].status = "valid"

\* C19: a request that provides no input, whose source of addresses is
\* unreachable or whose source yields no addresses is answered with
\* status 400 and an error field, and no verifyEmail call was started
\* for it.
C19_NoSourceGivesSingleError ==
    LET body == handler.body
        sheet == handler.sheet
        usesArray == handler.variant = "scoring" /\ body.provided = "array"
        noInput == \/ body.json = "throws"
                   \/ ~usesArray /\ body.sheetsUrl = "absent"
        unreachable == /\ ~usesArray
                       /\ body.sheetsUrl # "absent"
                       /\ \/ body.sheetsUrl = "invalid"
                          \/ sheet.fetch \in { "throws", "notOk" }
        noAddresses == \/ usesArray /\ body.providedCount = 0
                       \/ /\ ~usesArray
                          /\ body.sheetsUrl = "valid"
                          /\ sheet.fetch = "ok"
                          /\ sheet.rows = 0 \/ sheet.rowKind = "blank"
    IN  (noInput \/ unreachable \/ noAddresses) =>
            /\ handler.verified = 0
            /\ handler.phase = "responded" =>
                   handler.status = 400 /\ handler.hasError

\* the most addresses a request of the variant may have verified
maximumEmails(variant) ==
    IF variant = "probing" THEN SheetRowLimit - 1 ELSE MAX_EMAILS

\* C20: the verifyEmail calls of one request never exceed the configured
\* maximum, from the sheet or from the emails array.
C20_VerifiedWithinMaximum ==
    handler.verified <= maximumEmails(handler.variant)

\* C21: whatever the chunks, the text the EHLO step read is the server's
\* whole reply to EHLO, the text taken as the MAIL FROM result is the
\* server's reply to MAIL FROM, and the text taken as the RCPT TO verdict
\* is the server's reply to RCPT TO.
C21_RepliesBelongToTheirCommands ==
    /\ wire.pc \in { "write_mail", "read_mail", "write_rcpt", "read_rcpt",
                      "write_quit", "read_quit" } =>
           wire.ehloResponse = wire.script.ehlo
    /\ wire.pc \in { "write_rcpt", "read_rcpt", "write_quit", "read_quit" } =>
           wire.mailFromResponse = wire.script.mail
    /\ wire.pc \in { "write_quit", "read_quit" } =>
           wire.rcptResponse = wire.script.rcpt

\* a step taken in the QUIT part of an attempt returns what the RCPT TO
\* reply gives, or goes to the retry a 4xx RCPT TO reply asks for
quitStepKeepsVerdict ==
    probePc \in { "write_quit", "read_quit" } =>
        /\ probePc' = "backoff" =>
               rcptStatus(replyCode(rcptResponse), rcptResponse) = "temp_error"
        /\ probePc' = "returned" =>
               probeResult' = rcptDetails(ProbeMx, rcptResponse, tlsEnabled)

\* C22: whether the write or the read of QUIT succeeds or fails, the
\* attempt returns the code and classification of the RCPT TO reply it
\* read, and a failure of QUIT causes no retry.
C22_QuitFailureChangesNothing == [][quitStepKeepsVerdict]_vars

\* C23: one probe call asks for at most MAX_RETRIES + 1 connections,
\* whatever the outcomes of its attempts, and once called it returns an
\* smtp_details object with a status.
C23_BoundedAttemptsAndReturn ==
    /\ [](Len(sockets) <= MAX_RETRIES + 1)
    /\ (probePc # "idle") ~>
           (/\ probePc = "returned"
            /\ probeResult.status \in
                   { "valid", "invalid", "temp_error", "unknown", "catch_all" })

\* C23 witness: the first attempt read a 4xx RCPT TO reply, the retry was
\* refused, and the call returned from its catch block after
\* MAX_RETRIES + 1 connection attempts.
C23_Witness ==
    /\ probePc = "returned"
    /\ Len(sockets) = MAX_RETRIES + 1
    /\ Len(rcptLog) = 1
    /\ numGe(rcptLog[1], 400) /\ numLt(rcptLog[1], 500)
    /\ sockets[Len(sockets)] = "failed"
    /\ returnedFrom = "catch"
    /\ probeResult.status = "unknown"

\* the call returns classification unknown with reply code 0
returnsUnknownCodeZero ==
    /\ probePc' = "returned"
    /\ probeResult'.status = "unknown"
    /\ probeResult'.code = 0

\* a step that ends the wait for Deno.connect without a connection: when
\* the timer won (the connect is still pending) the call returns unknown
\* with code 0 at once; when the connect was refused the call goes to
\* its retry if budget remains and returns unknown with code 0 if not
connectFailureStep ==
    probePc = "connect" =>
        /\ (probePc' # "connect" /\ sockets'[Len(sockets)] = "connecting") =>
               returnsUnknownCodeZero
        /\ sockets'[Len(sockets)] = "failed" =>
               IF retryCount < MAX_RETRIES
               THEN probePc' = "backoff"
               ELSE returnsUnknownCodeZero

\* C24: a connect timeout returns unknown with code 0 and is not retried;
\* a refusal is retried when budget remains, and a refusal of the retry
\* returns unknown with code 0.
C24_ConnectFailures == [][connectFailureStep]_vars

\* C24 witness: the first connect was refused, the retry was refused too,
\* and the call returned unknown with code 0.
C24_Witness ==
    /\ probePc = "returned"
    /\ sockets = << "failed", "failed" >>
    /\ retryCount = MAX_RETRIES
    /\ probeResult.status = "unknown"
    /\ probeResult.code = 0
    /\ probeResult.message = ConnectionRefused

\* the connections the probe had a dialogue on
Connections == 1..Len(dialogue)

\* the commands written on connection c, in order
commandsOn(c) ==
    LET writes == SelectSeq(dialogue[c], LAMBDA e : e.op = "write")
    IN  [i \in 1..Len(writes) |-> writes[i].what]

\* event i of connection c is a read that timed out at the greeting, EHLO,
\* MAIL FROM or RCPT TO step (the read after QUIT is the other one)
timedOutBeforeQuit(c, i) ==
    /\ dialogue[c][i].op = "read"
    /\ dialogue[c][i].what = "timeout"
    /\ i > 1 => dialogue[c][i - 1].what # "QUIT"

\* C25: after a read timed out at the greeting, EHLO, MAIL FROM or RCPT TO
\* step nothing more is written or read on that connection, no further
\* connection is asked for, and the call has returned unknown with code 0
\* and the timeout as its message.
C25_ReadTimeoutIsHardFailure ==
    \A c \in Connections :
        \A i \in 1..Len(dialogue[c]) :
            timedOutBeforeQuit(c, i) =>
                /\ i = Len(dialogue[c])
                /\ c = Len(dialogue)
                /\ probePc = "returned"
                /\ probeResult.status = "unknown"
                /\ probeResult.code = 0
                /\ probeResult.message = SMTPReadTimeout

\* C25 witness: the read of the MAIL FROM reply timed out after the
\* greeting and the EHLO reply were read, and the call returned.
C25_Witness ==
    /\ probePc = "returned"
    /\ Len(dialogue) = 1
    /\ Len(dialogue[1]) = 5
    /\ commandsOn(1) = << "EHLO", "MAIL FROM" >>
    /\ timedOutBeforeQuit(1, 5)

\* C26: on a connection whose greeting was read with a code other than
\* 220 nothing is written, and the call has returned unknown with the
\* code and the text of that greeting.
C26_GreetingNot220EndsAttempt ==
    \A c \in Connections :
        (/\ dialogue[c] # << >>
         /\ dialogue[c][1].what = "data"
         /\ ~numEq(dialogue[c][1].code, 220)) =>
            /\ Len(dialogue[c]) = 1
            /\ c = Len(dialogue)
            /\ probePc = "returned"
            /\ probeResult.status = "unknown"
            /\ probeResult.code = dialogue[c][1].code
            /\ probeResult.message = trim(dialogue[c][1].text)

\* C26 witness: the server greeted with 554 and the call returned unknown
\* with code 554 without writing anything.
C26_Witness ==
    /\ probePc = "returned"
    /\ returnedFrom = "greeting"
    /\ probeResult.code = 554
    /\ commandsOn(Len(dialogue)) = << >>

\* the command was written on the connection SpecWire follows
wireSent(command) ==
    \E i \in 1..Len(wire.commands) : wire.commands[i] = command

\* C27: RCPT TO is written only when the server greeted with 220, EHLO
\* was written and answered and the server answered MAIL FROM with 250;
\* when the server answers MAIL FROM with another code RCPT TO is not
\* written and the attempt returns unknown.
C27_RcptOnlyAfterMail250 ==
    /\ wireSent("RCPT TO") =>
           /\ numEq(replyCode(wire.script.greeting), 220)
           /\ wireSent("EHLO")
           /\ wire.ehloResponse # << >>
           /\ wireSent("MAIL FROM")
           /\ numEq(replyCode(wire.script.mail), 250)
    /\ (wireSent("MAIL FROM") /\ ~numEq(replyCode(wire.script.mail), 250)) =>
           /\ ~wireSent("RCPT TO")
           /\ wire.pc = "returned" => wire.details.status = "unknown"

\* C28: the commands written on a connection are EHLO, MAIL FROM, RCPT TO
\* and QUIT in that order, each at most once, or the first few of them;
\* STARTTLS and DATA are never written.
C28_OnlyTheFourCommands ==
    \A c \in Connections :
        LET dialogueCommands == << "EHLO", "MAIL FROM", "RCPT TO", "QUIT" >>
        IN  /\ Len(commandsOn(c)) <= Len(dialogueCommands)
            /\ commandsOn(c) = SubSeq(dialogueCommands, 1, Len(commandsOn(c)))

\* C28 witness: the server advertised STARTTLS and accepted the recipient,
\* and the connection saw the four commands and nothing else.
C28_Witness ==
    /\ probePc = "returned"
    /\ probeResult.tls
    /\ probeResult.status = "valid"
    /\ Len(dialogue) = 1
    /\ commandsOn(1) = << "EHLO", "MAIL FROM", "RCPT TO", "QUIT" >>

\* a step lowers a counter of the limiter by one, and only a counter that
\* is above zero
decrementsAreFloored ==
    /\ globalActive' < globalActive =>
           (globalActive > 0 /\ globalActive' = globalActive - 1)
    /\ \A d \in LimiterDomains :
           domainQueues'[d] < domainQueues[d] =>
               (domainQueues[d] > 0 /\ domainQueues'[d] = domainQueues[d] - 1)

\* C29: whatever acquire and release calls were made, matched or not, no
\* counter of the limiter is negative, and a release lowers a counter by
\* one only when it is above zero.
C29_CountersNeverNegative ==
    /\ [](/\ globalActive >= 0
          /\ otherActive >= 0
          /\ \A d \in LimiterDomains : domainQueues[d] >= 0)
    /\ [][decrementsAreFloored]_vars

\* C29 witness: a release with no matching acquire has acted: the global
\* counter is back at zero while a domain still holds a slot.
C29_Witness ==
    /\ globalActive = 0
    /\ \E d \in LimiterDomains : domainQueues[d] > 0

\* C30: every lookup that was called returns, also when the resolver
\* never responds.
C30_EveryLookupReturns == <>(dnsLookup.phase = "returned")

\* the most verifyEmail calls one Promise.all of the variant is handed
groupCap(variant) ==
    IF variant = "probing" THEN BATCH_SIZE ELSE MAX_CONCURRENT

\* a step that calls verifyEmail is taken with no call in flight, and the
\* calls in flight after it are the ones it made
groupStartsAfterGroup ==
    handler'.verified > handler.verified =>
        /\ handler.inFlight = 0
        /\ handler'.inFlight = handler'.verified - handler.verified

\* C31: the groups run strictly one after another: verifyEmail is called
\* for a group only when every call of the groups before has returned,
\* so at most BATCH_SIZE (probing variant) or MAX_CONCURRENT (scoring
\* variant) calls are in flight at any time.
C31_GroupsOneAfterAnother ==
    /\ [](handler.inFlight <= groupCap(handler.variant))
    /\ [][groupStartsAfterGroup]_vars

\* a later group of full size is in flight, in either variant
C31_Witness ==
    /\ handler.phase = "awaiting"
    /\ handler.inFlight = groupCap(handler.variant)
    /\ handler.verified > handler.inFlight
    /\ handler.variant = "scoring" => handler.j > 0

\* the probe of task t has returned
probeReturned(t) == verifyPc[t] = "done" /\ calls[t].probe > 0

\* C32: once the probe has returned, smtp_valid is true exactly when its
\* classification is valid or catch_all, and is_catch_all is true exactly
\* when the classification is catch_all.
C32_ProbeFoldedIntoFlags ==
    \A t \in Tasks :
        probeReturned(t) =>
            /\ result[t].smtp_valid <=>
                   result[t].smtp_details.status \in { "valid", "catch_all" }
            /\ result[t].is_catch_all <=>
                   result[t].smtp_details.status = "catch_all"

\* one probe returned catch_all and another returned temp_error
C32_Witness ==
    \E t, u \in Tasks :
        /\ probeReturned(t) /\ probeReturned(u)
        /\ result[t].smtp_details.status = "catch_all"
        /\ result[t].smtp_valid /\ result[t].is_catch_all
        /\ result[u].smtp_details.status = "temp_error"
        /\ ~result[u].smtp_valid /\ ~result[u].is_catch_all

\* the connections of the call that are open
openSockets == { i \in 1..Len(sockets) : sockets[i] = "open" }

\* a step that asks for a connection leaves none of the earlier ones open
\* or still connecting
retryFindsConnectionsClosed ==
    Len(sockets') > Len(sockets) =>
        \A i \in 1..Len(sockets) : sockets'[i] \in { "closed", "failed" }

\* C33: during one performSMTPCheck call with its retries at most one of
\* its connections is open at any time, and the connection of the attempt
\* before is closed when the retry connects.
C33_OneConnectionAtATime ==
    /\ [](Cardinality(openSockets) <= 1)
    /\ [][retryFindsConnectionsClosed]_vars

\* the last retry is connected after a 4xx attempt and another failed
\* attempt, whose connections are closed
C33_Witness ==
    /\ Len(sockets) = MAX_RETRIES + 1
    /\ openSockets = { Len(sockets) }
    /\ \A i \in 1..MAX_RETRIES : sockets[i] = "closed"
    /\ Len(rcptLog) = 1

\* the caller is in limiter.acquire
inAcquire(c) == verifyPc[c] \in { "acquire", "sleep" }

\* every call of the group has returned
gateRunEnded == \A c \in GateCallers : verifyPc[c] = "done"

\* C34: in a run whose probes all return, no verifyEmail call stays in
\* limiter.acquire for ever, a call leaves acquire only by being admitted,
\* the run ends, and when it has ended every counter of the limiter is
\* zero.
C34_EveryWaiterAdmitted ==
    /\ \A c \in GateCallers : []<>(~inAcquire(c))
    /\ [](\A c \in GateCallers : ~inAcquire(c) => calls[c].acquire = 1)
    /\ <>gateRunEnded
    /\ [](gateRunEnded =>
              /\ globalActive = 0
              /\ \A d \in Domains : domainQueues[d] = 0)

\* a call that slept in acquire, the cap of its domain being reached, has
\* been admitted and fills the domain's cap again
C34_Witness ==
    \E c \in GateCallers :
        /\ verifyPc[c] = "probe" /\ calls[c].slept
        /\ domainQueues[extractDomain(emails[c])] = MAX_CONCURRENT_PER_DOMAIN

\* the sum of the counts domainQueues holds for the domains of ds
RECURSIVE inFlightSum(_)
inFlightSum(ds) ==
    IF ds = { } THEN 0
    ELSE LET d == CHOOSE x \in ds : TRUE
         IN  domainQueues[d] + inFlightSum(ds \ { d })

\* C35: while verifyEmail is the only caller of the limiter, globalActive
\* equals the sum of the per-domain counts in every reachable state.
C35_GlobalIsSumOfDomains == globalActive = inFlightSum(Domains)

\* two probes for two different domains are under way
C35_Witness ==
    /\ globalActive = 2
    /\ \E d, e \in Domains :
           d # e /\ domainQueues[d] = 1 /\ domainQueues[e] = 1

\* C36: every result verifyEmail returned with can_send = "no" carries an
\* error_message, whatever the probe's classification, temp_error
\* included.
C36_NoCarriesErrorMessage ==
    \A t \in Tasks :
        (verifyPc[t] = "done" /\ result[t].can_send = "no") =>
            result[t].error_message # Undefined

\* C37: in the scoring variant a returned address whose domain has no MX
\* record has a score of at most 40, so its status is neither valid nor
\* risky and the can_send derived from the status is "no".
C37_NoMxNeverSendable ==
    \A t \in Tasks :
        (scoringPc[t] = "done" /\ ~scoringResult[t].mx_found) =>
            /\ scoringResult[t].smtp_score <= 40
            /\ scoringResult[t].status \notin { "valid", "risky" }
            /\ derivedCanSend(scoringResult[t]) = "no"

\* an address without MX records got everything else: its domain exists,
\* SPF and DMARC are present and no penalty applies; its score is 40
C37_Witness ==
    \E t \in Tasks :
        /\ reachedScoring(t)
        /\ ~scoringResult[t].mx_found
        /\ scoringResult[t].domain_exists
        /\ scoringChecks[t].hasSPF /\ scoringChecks[t].hasDMARC
        /\ scoringResult[t].smtp_score = 40
        /\ scoringResult[t].status = "unknown"

\* the exchanger of the first record of task t's sorted MX list
primaryOf(t) == toLowerCase(scoringChecks[t].mxRecords[1].exchange)

\* everything that adds to the score is there and nothing that takes from it
fullMarks(t) ==
    /\ reachedScoring(t)
    /\ scoringResult[t].domain_exists
    /\ Len(scoringChecks[t].mxRecords) >= 2
    /\ \E p \in knownValidSuffixes : endsWith(primaryOf(t), p)
    /\ ~\E p \in suspiciousWords : includes(primaryOf(t), p)
    /\ scoringChecks[t].hasSPF
    /\ scoringChecks[t].hasDMARC
    /\ ~scoringResult[t].disposable
    /\ ~scoringResult[t].role_account
    /\ ~scoringResult[t].catch_all

\* C38: in the scoring variant status is valid exactly when the domain
\* exists, there are at least two MX records, the primary exchanger matches
\* a known-valid pattern and no suspicious one, SPF and DMARC are present
\* and the address is neither disposable nor a role account nor flagged
\* catch-all; the score is then 90, the highest there is.
C38_ValidIffFullMarks ==
    \A t \in Tasks :
        scoringPc[t] = "done" =>
            /\ scoringResult[t].status = "valid" <=> fullMarks(t)
            /\ scoringResult[t].status = "valid" =>
                   scoringResult[t].smtp_score = 90
            /\ scoringResult[t].smtp_score <= 90

\* an address with full marks was scored 90 and returned as valid, its
\* primary exchanger being the record of the lower priority
C38_Witness ==
    \E t \in Tasks :
        /\ fullMarks(t)
        /\ scoringChecks[t].mxRecords[1].priority < scoringChecks[t].mxRecords[2].priority
        /\ scoringResult[t].smtp_score = 90
        /\ scoringResult[t].status = "valid"

\* C18: a lookup whose fetch or decoding threw, whose response has a
\* non-zero Status, or (for MX) whose answer holds a malformed record,
\* returns the empty list or false.
C18_LookupsFailClosed ==
    dnsLookup.phase = "returned" =>
        LET response == dnsLookup.response
            failed ==
                \/ response.kind # "json"
                \/ response.Status # 0
                \/ /\ dnsLookup.query = "MX"
                   /\ \E i \in 1..Len(response.Answer) :
                          ~wellFormedMxData(response.Answer[i])
        IN  failed => (dnsLookup.records = << >> /\ dnsLookup.found = FALSE)

=============================================================================
